---------------------------- MODULE Spec2Model ----------------------------
(***************************************************************************)
(* Model of the traversal pipeline of samuraizer-rust (src/traversal.rs):  *)
(* the walker (gather_files), the rayon worker pool and the aggregator     *)
(* (traversal_worker, aggregate_entries), the traversal thread             *)
(* (run_traversal) and the consumer-side iterator                          *)
(* (TraversalIterator::__next__).                                          *)
(*                                                                         *)
(* The environment is the filesystem (what the walk yields, what           *)
(* process_path finds), the host's cancellation token, the host's          *)
(* interpreter lock, the operating system (thread-pool creation) and the   *)
(* consumer (pulls, or drops the iterator).                                *)
(***************************************************************************)
EXTENDS Integers, Sequences, FiniteSets, TLC

(* ---------------------------- bounds ---------------------------------- *)

\* Largest number of entries the directory walk yields (the root included).
MaxEntries == 4

\* The same three bounds for the runs checked under fairness.
LiveMaxEntries == 3

LiveMaxThreads == 2

LiveMaxChunk == 1

\* Largest value of options.threads.
MaxThreads == 2

\* Largest value of options.chunk_size.
MaxChunk == 2

(* ------------------------ program constants --------------------------- *)

\* bounded::<(usize, Value)>(options.threads.max(1) * 4)
EntryChannelFactor == 4

\* bounded::<TraversalMessage>(options.chunk_size.max(1) * 4)
BatchChannelFactor == 4

\* info.type of a record process_path returns. No step of the pipeline tells
\* "binary" from "text", so "text" stands for both.
InfoTypes == {"text", "excluded", "error"}

\* What walker.next() yields: an error, a directory, a directory that is
\* excluded (its subtree is skipped), an entry that is neither file nor
\* directory, a regular file that is excluded, a regular file.
EntryKinds == {"err", "dir", "skipdir", "other", "xfile", "file"}

\* The host's token: absent (options.cancellation = None), not cancelled,
\* cancelled, or an object whose is_cancellation_requested raises.
TokenStates == {"none", "false", "true", "broken"}

VARIABLES
    opts,          \* TraversalOptions: [threads, chunk_size]
    token,         \* state of the host's cancellation token
    tokenAtStart,  \* history: the token's state when the run started
    lateCancel,    \* history: the token was set after the first batch was
                   \* received, while a worklist file was not yet picked up
    failure,       \* history: a token poll raised, the pool was not built
                   \* or the aggregator's thread could not be created
    tpc,           \* traversal thread: gather, format (gather_files has
                   \* returned the PyErr of a poll, which is yet to be
                   \* formatted), build, install, exit
    rootSeen,      \* walker: the root entry has been yielded
    unwalked,      \* entries the walk has yet to yield
    nextErr,       \* the entry walker.next() yields next is an Err
    included,      \* gather_files: included (= files.len())
    excluded,      \* gather_files: excluded
    flag,          \* cancellation_flag (AtomicBool)
    todo,          \* submission indices no pool task has taken yet
    tasks,         \* pool tasks in flight: [index, st, info], st one of
                   \* poll, format (the poll has raised and its PyErr is
                   \* yet to be formatted), send
    full,          \* rayon's short-circuit: some task returned Err
    errs,          \* the Err values the tasks returned
    tresult,       \* what traversal_worker returned: none, Ok, Other, or
                   \* Panicked when it unwound instead of returning
    entryCh,       \* (index, entry) channel, workers -> aggregator
    aresult,       \* what aggregate_entries returned: none, Ok, Cancelled
    apc,           \* aggregator: idle, recv, send_drain, send_flush, send_final,
                   \* summary, done
    chunk,         \* aggregate_entries: chunk
    pending,       \* aggregate_entries: pending (BTreeMap), as a set of records
    next_index,    \* aggregate_entries: next_index
    processed,     \* aggregate_entries: processed
    failed_files,  \* aggregate_entries: failed_files (submission indices)
    seenExcluded,  \* history: records with info.type = excluded the aggregator got
    batchCh,       \* TraversalMessage channel, traversal thread -> consumer
    cpc,           \* consumer: python (between pulls), recv (blocked in recv,
                   \* holding the interpreter lock), dropped
    receiver,      \* TraversalIterator.receiver: "Some" or "None"
    log,           \* records the consumer received, in arrival order
    nbatches,      \* Entries batches the consumer received
    summaries,     \* Summary values the consumer received
    raised,        \* errors __next__ raised
    lastPull       \* result of the latest pull: none, entries, summary, error, eos

walkerVars == <<rootSeen, unwalked, nextErr, included, excluded>>
poolVars == <<todo, tasks, full, errs>>
aggVars == <<apc, aresult, chunk, pending, next_index, processed, failed_files, seenExcluded>>
consVars == <<cpc, receiver, log, nbatches, summaries, raised, lastPull>>
histVars == <<tokenAtStart, lateCancel, failure>>

\* The state of the traversal pipeline.
pipeVars == <<opts, token, histVars, tpc, walkerVars, flag, poolVars, tresult,
              entryCh, aggVars, batchCh, consVars>>

\* The per-file functions (process_path, the content readers, the hasher)
\* are applied to one file at a time; they share no state with a run.
VARIABLES
    pfile,         \* the file: for process_path and the hasher what the
                   \* filesystem answers [stat, size, image, classify, read,
                   \* hash], for the classifier [ext, sample, magic]
    popts,         \* the options the function reads: [max_file_size,
                   \* include_binary, hashing_enabled], "none" if it has none
    pout           \* [fn, value]: the function applied ("none" before) and
                   \* its result

fileVars == <<pfile, popts, pout>>

\* gather_files walks one tree; the walk shares no state with the rest.
VARIABLES
    tree,          \* the tree below options.root: [name, kind]
    wopts,         \* the options gather_files reads
    wpc,           \* "idle", "start" (before the first walker.next()),
                   \* "walk", "done" (gather_files has returned)
    wstack,        \* walkdir's stack of directory listings: each the set of
                   \* items the listing has yet to yield
    files,         \* gather_files: files (paths)
    wincluded,     \* gather_files: included
    wexcluded      \* gather_files: excluded

treeVars == <<tree, wopts, wpc, wstack, files, wincluded, wexcluded>>

\* The cache database, with the history of the calls made on it.
VARIABLES
    rows,          \* the table `cache`: rows [file_path, file_hash, file_info,
                   \* size, mtime]
    lastSet,       \* history: the arguments of the latest set of each path
                   \* that returned
    nsets,         \* history: set operations so far
    cout           \* the result of the latest call: of a get [path, value],
                   \* of a set whether it raised

cacheVars == <<rows, lastSet, nsets, cout>>

\* The classifier's cache and the calls of is_binary on one path.
VARIABLES
    mfile,         \* the file at the path: [ext, sample, magic, stamp], stamp standing
                   \* for its (size, mtime_ns)
    mcache,        \* MIME_CACHE as seen from the path: the entry last put
                   \* for it [present, stamp, value, newer], stamp the
                   \* (size, mtime_ns) of its key, newer the number of other
                   \* keys used more recently than the entry
    mpc,           \* position of the call of is_binary on the path
    mcur,          \* locals of the call: [stat, stamp, others, result], others
                   \* the other keys newer than the entry at the lookup
    mcalls,        \* history: the last two completed calls, in order
    ncalls         \* history: the number of calls started

mimeVars == <<mfile, mcache, mpc, mcur, mcalls, ncalls>>

\* The mutex of MIME_CACHE and the threads that call is_binary concurrently.
VARIABLES
    lpc,           \* position of each thread in is_binary
    lpath,         \* the path each thread classifies
    lholder,       \* the thread that holds MIME_CACHE's mutex, 0 for none
    lcache         \* the paths whose keys MIME_CACHE holds

lockVars == <<lpc, lpath, lholder, lcache>>

\* The state outside the pipeline.
auxVars == <<fileVars, treeVars, cacheVars, mimeVars, lockVars>>

vars == <<pipeVars, auxVars>>

(* ----------------------------- helpers -------------------------------- *)

Range(s) == {s[i] : i \in 1..Len(s)}

Indices(s) == [i \in 1..Len(s) |-> s[i].index]

\* The interpreter lock can be taken by a thread of the traversal unless the
\* consumer sits in receiver.recv() inside __next__, which it entered with the
\* lock held and never releases while it waits.
GilFree == cpc # "recv"

\* path_cancellation_requested: calls token.is_cancellation_requested() under
\* the interpreter lock; "err" is the PyErr of a call that raises.
path_cancellation_requested(t) ==
    CASE t = "true" -> "true"
      [] t = "false" -> "false"
      [] OTHER -> "err"

\* check_cancellation: Ok(false) without a token, else the poll, its error
\* mapped to NativeError::Other.
check_cancellation(t) ==
    IF t = "none" THEN "false" ELSE path_cancellation_requested(t)

\* A poll needs the interpreter lock only when there is a token.
CanPoll == token = "none" \/ GilFree

\* err.to_string() on the PyErr of a poll: Display for PyErr reads the
\* exception object, for which it takes the interpreter lock again.
CanFormat == GilFree

(* --------------------------- initial state ---------------------------- *)

\* No per-file function is being applied.
FileIdle ==
    /\ pfile = "none"
    /\ popts = "none"
    /\ pout = [fn |-> "none"]


\* The pipeline after run_traversal has spawned the traversal thread, for
\* a walk that yields at most max_entries entries.
PipeStart(max_entries) ==
    /\ opts \in [threads : 1..MaxThreads, chunk_size : 1..MaxChunk]
    /\ token \in TokenStates
    /\ tokenAtStart = token
    /\ lateCancel = FALSE
    /\ failure = FALSE
    /\ tpc = "gather"
    /\ rootSeen = FALSE
    /\ unwalked \in 1..max_entries
    /\ nextErr \in BOOLEAN
    /\ included = 0
    /\ excluded = 0
    /\ flag = FALSE
    /\ todo = {}
    /\ tasks = {}
    /\ full = FALSE
    /\ errs = {}
    /\ tresult = "none"
    /\ entryCh = <<>>
    /\ apc = "idle"
    /\ aresult = "none"
    /\ chunk = <<>>
    /\ pending = {}
    /\ next_index = 0
    /\ processed = 0
    /\ failed_files = <<>>
    /\ seenExcluded = 0
    /\ batchCh = <<>>
    /\ cpc = "python"
    /\ receiver = "Some"
    /\ log = <<>>
    /\ nbatches = 0
    /\ summaries = <<>>
    /\ raised = 0
    /\ lastPull = "none"

PipeInit == PipeStart(MaxEntries)

\* gather_files is not running on a tree of its own.
TreeIdle ==
    /\ tree = "none"
    /\ wopts = "none"
    /\ wpc = "idle"
    /\ wstack = <<>>
    /\ files = <<>>
    /\ wincluded = 0
    /\ wexcluded = 0

\* No cache call is made.
CacheIdle ==
    /\ rows = {}
    /\ lastSet = "none"
    /\ nsets = 0
    /\ cout = [path |-> "none"]

\* No file is classified.
MimeIdle ==
    /\ mfile = "none"
    /\ mcache = "none"
    /\ mpc = "idle"
    /\ mcur = "none"
    /\ mcalls = <<>>
    /\ ncalls = 0

\* No thread calls is_binary.
LockIdle ==
    /\ lpc = <<>>
    /\ lpath = <<>>
    /\ lholder = 0
    /\ lcache = {}

AuxIdle == FileIdle /\ TreeIdle /\ CacheIdle /\ MimeIdle /\ LockIdle

Init == PipeInit /\ AuxIdle

\* The pipeline in one fixed initial state, for the components that run
\* without it.
PipeIdle ==
    /\ PipeInit
    /\ opts = [threads |-> 1, chunk_size |-> 1]
    /\ token = "none"
    /\ unwalked = 1
    /\ ~nextErr


(* ------------------------- the environment ---------------------------- *)

\* The run may still poll the token: what the host does to the token later
\* no step of the run can observe.
PollAhead ==
    \/ tpc = "gather" /\ unwalked > 0
    \/ tpc \in {"gather", "build"} /\ included > 0
    \/ tpc = "install" /\ ~full /\ (todo # {} \/ \E t \in tasks : t.st = "poll")
    \/ \E t \in tasks : t.st = "poll"

\* The host sets the token. The host runs under the interpreter lock.
Cancel ==
    /\ token = "false"
    /\ GilFree
    /\ PollAhead
    /\ token' = "true"
    /\ lateCancel' = (lateCancel \/ (nbatches >= 1 /\ tpc = "install" /\ todo # {}))
    /\ UNCHANGED <<auxVars, opts, tokenAtStart, failure, tpc, walkerVars, flag, poolVars,
                   tresult, entryCh, aggVars, batchCh, consVars>>

\* The token's is_cancellation_requested starts to raise.
Break ==
    /\ token = "false"
    /\ GilFree
    /\ PollAhead
    /\ token' = "broken"
    /\ UNCHANGED <<auxVars, opts, histVars, tpc, walkerVars, flag, poolVars,
                   tresult, entryCh, aggVars, batchCh, consVars>>

(* ------------------ run_traversal: the thread's end ------------------ *)

\* Mutant of ReceiverGone: a send never learns that the receiver is gone.
ReceiverNeverGone == FALSE

\* The receiving half is gone once the iterator is dropped or has set
\* self.receiver = None.
ReceiverGone == cpc = "dropped" \/ receiver = "None"

\* The closure of run_traversal: an Err other than Cancelled is sent as
\* TraversalMessage::Error; `let _ =` ignores a refused send.
report(result, ch) ==
    IF result \in {"Ok", "Cancelled"} \/ ReceiverGone
    THEN ch
    ELSE Append(ch, [type |-> "Error"])

\* The send of the Error blocks while the channel is full.
CanReport(result) ==
    \/ result \in {"Ok", "Cancelled"}
    \/ ReceiverGone
    \/ Len(batchCh) < opts.chunk_size * BatchChannelFactor

(* ------------------------ gather_files (walker) ----------------------- *)

\* Mutant of initial_flag: the flag starts false whatever the walk saw.
initial_flag_clear(cancelled) == FALSE

\* Arc::new(AtomicBool::new(gather.cancelled)): the flag's first value.
initial_flag(cancelled) == cancelled

\* One turn of the loop `while let Some(entry_result) = walker.next()`, for an
\* entry of the given kind. An Err entry is skipped before the token is
\* polled. The first entry is the root: the walk goes on below it only when
\* it is a directory that is not skipped (a root that cannot be read yields a
\* single Err).
WalkStep(kind) ==
    /\ tpc = "gather"
    /\ unwalked > 0
    /\ (kind = "err") = nextErr
    /\ IF kind = "err"
       THEN /\ unwalked' = (IF rootSeen THEN unwalked - 1 ELSE 0)
            /\ rootSeen' = TRUE
            /\ UNCHANGED <<included, excluded, flag, tpc, tresult, failure, batchCh>>
       ELSE /\ CanPoll
            /\ LET r == check_cancellation(token) IN
               CASE r = "err" ->
                      \* path_cancellation_requested(token)? : the lock is
                      \* released and gather_files returns the PyErr
                      /\ failure' = TRUE
                      /\ tpc' = "format"
                      /\ rootSeen' = FALSE
                      /\ unwalked' = 0
                      /\ UNCHANGED <<included, excluded, flag, tresult, batchCh>>
                 [] r = "true" ->
                      \* cancelled = true; break; the flag starts as
                      \* gather.cancelled
                      /\ flag' = initial_flag(TRUE)
                      /\ tpc' = "build"
                      /\ rootSeen' = FALSE
                      /\ unwalked' = 0
                      /\ UNCHANGED <<included, excluded, tresult, failure, batchCh>>
                 [] OTHER ->
                      /\ rootSeen' = TRUE
                      /\ unwalked' = (IF ~rootSeen /\ kind # "dir" THEN 0 ELSE unwalked - 1)
                      /\ included' = (IF kind = "file" THEN included + 1 ELSE included)
                      /\ excluded' = (IF kind = "xfile" THEN excluded + 1 ELSE excluded)
                      /\ UNCHANGED <<flag, tpc, tresult, failure, batchCh>>
    /\ nextErr' \in (IF unwalked' > 0 THEN BOOLEAN ELSE {FALSE})
    /\ UNCHANGED <<auxVars, opts, token, tokenAtStart, lateCancel, poolVars, entryCh,
                   aggVars, consVars>>

\* .map_err(|err| NativeError::Other(err.to_string()))? on the PyErr that
\* gather_files returned: the error is formatted under the interpreter lock,
\* traversal_worker returns Err(Other) and the closure of run_traversal
\* sends the Error.
GatherErr ==
    /\ tpc = "format"
    /\ CanFormat
    /\ CanReport("Other")
    /\ tresult' = "Other"
    /\ batchCh' = report("Other", batchCh)
    /\ tpc' = "exit"
    /\ UNCHANGED <<auxVars, opts, token, histVars, walkerVars, flag, poolVars, entryCh,
                   aggVars, consVars>>

\* walker.next() returns None: gather_files returns Ok with cancelled = false.
WalkEnd ==
    /\ tpc = "gather"
    /\ unwalked = 0
    /\ tpc' = "build"
    /\ rootSeen' = FALSE
    /\ UNCHANGED <<auxVars, opts, token, histVars, unwalked, nextErr, included, excluded,
                   flag, poolVars, tresult, entryCh, aggVars, batchCh, consVars>>

(* --------------------- traversal_worker: the pool --------------------- *)

\* ThreadPoolBuilder::build succeeds, the channel is created, thread::spawn
\* creates the aggregator's thread and pool.install starts on
\* files.into_par_iter().
BuildOk ==
    /\ tpc = "build"
    /\ tpc' = "install"
    /\ todo' = 0..(included - 1)
    /\ apc' = "recv"
    /\ UNCHANGED <<auxVars, opts, token, histVars, walkerVars, flag, tasks, full, errs,
                   tresult, entryCh, aresult, chunk, pending, next_index,
                   processed, failed_files, seenExcluded, batchCh, consVars>>

\* ThreadPoolBuilder::build fails: traversal_worker returns Err(Other).
BuildFail ==
    /\ tpc = "build"
    /\ CanReport("Other")
    /\ tresult' = "Other"
    /\ failure' = TRUE
    /\ batchCh' = report("Other", batchCh)
    /\ tpc' = "exit"
    /\ UNCHANGED <<auxVars, opts, token, tokenAtStart, lateCancel, walkerVars, flag,
                   poolVars, entryCh, aggVars, consVars>>

\* The pool is built and thread::spawn cannot create the aggregator's thread
\* (the operating system refuses one more thread): thread::spawn panics. The
\* traversal thread unwinds out of traversal_worker and of the closure of
\* run_traversal: the pool and every sender are dropped and nothing is sent.
SpawnPanic ==
    /\ tpc = "build"
    /\ tresult' = "Panicked"
    /\ failure' = TRUE
    /\ tpc' = "exit"
    /\ UNCHANGED <<auxVars, opts, token, tokenAtStart, lateCancel, walkerVars, flag,
                   poolVars, entryCh, aggVars, batchCh, consVars>>

\* Mutant of cancel_seen: the closure starts its file whatever the flag says.
cancel_unseen(f) == FALSE

\* if process_cancel.load(Ordering::Relaxed): the closure's first statement.
cancel_seen(f) == f

\* A pool thread takes item (index, path) and loads the flag
\* (process_cancel.load): Err(Cancelled) when it is set. After an Err no
\* further item is started (try_for_each short-circuits).
TaskStart(i) ==
    /\ tpc = "install"
    /\ ~full
    /\ i \in todo
    /\ Cardinality(tasks) < opts.threads
    /\ todo' = todo \ {i}
    /\ IF cancel_seen(flag)
       THEN /\ full' = TRUE
            /\ errs' = errs \cup {"Cancelled"}
            /\ UNCHANGED tasks
       ELSE /\ tasks' = tasks \cup {[index |-> i, st |-> "poll", info |-> "none"]}
            /\ UNCHANGED <<full, errs>>
    /\ UNCHANGED <<auxVars, opts, token, histVars, tpc, walkerVars, flag, tresult,
                   entryCh, aggVars, batchCh, consVars>>

\* check_cancellation(&process_options)?, then process_path, whose result
\* (the record's info.type) the file decides.
TaskPoll(t, info) ==
    /\ t \in tasks
    /\ t.st = "poll"
    /\ CanPoll
    /\ LET r == check_cancellation(token) IN
       CASE r = "err" ->
              \* the lock is released and the PyErr goes to map_err
              /\ tasks' = (tasks \ {t}) \cup {[t EXCEPT !.st = "format"]}
              /\ failure' = TRUE
              /\ UNCHANGED <<flag, full, errs>>
         [] r = "true" ->
              /\ flag' = TRUE
              /\ tasks' = tasks \ {t}
              /\ full' = TRUE
              /\ errs' = errs \cup {"Cancelled"}
              /\ UNCHANGED failure
         [] OTHER ->
              /\ tasks' = (tasks \ {t}) \cup {[t EXCEPT !.st = "send", !.info = info]}
              /\ UNCHANGED <<flag, full, errs, failure>>
    /\ UNCHANGED <<auxVars, opts, token, tokenAtStart, lateCancel, tpc, walkerVars, todo,
                   tresult, entryCh, aggVars, batchCh, consVars>>

\* .map_err(|err| NativeError::Other(err.to_string())) in check_cancellation
\* on the PyErr of the task's poll: the error is formatted under the
\* interpreter lock and the closure returns Err(Other), without storing the
\* flag.
TaskErr(t) ==
    /\ t \in tasks
    /\ t.st = "format"
    /\ CanFormat
    /\ tasks' = tasks \ {t}
    /\ full' = TRUE
    /\ errs' = errs \cup {"Other"}
    /\ UNCHANGED <<auxVars, opts, token, histVars, tpc, walkerVars, flag, todo,
                   tresult, entryCh, aggVars, batchCh, consVars>>

\* tx.send((index, entry)): blocks while the channel is full, fails when the
\* aggregator has returned (entry_rx dropped).
TaskSend(t) ==
    /\ t \in tasks
    /\ t.st = "send"
    /\ IF apc = "done"
       THEN /\ flag' = TRUE
            /\ full' = TRUE
            /\ errs' = errs \cup {"Cancelled"}
            /\ UNCHANGED entryCh
       ELSE /\ Len(entryCh) < opts.threads * EntryChannelFactor
            /\ entryCh' = Append(entryCh, [index |-> t.index, info |-> t.info])
            /\ UNCHANGED <<flag, full, errs>>
    /\ tasks' = tasks \ {t}
    /\ UNCHANGED <<auxVars, opts, token, histVars, tpc, walkerVars, todo, tresult,
                   aggVars, batchCh, consVars>>

\* pool.install has returned (every item taken or the iteration
\* short-circuited, no task in flight) and entry_tx is dropped.
PoolFinished ==
    /\ tpc = "install"
    /\ tasks = {}
    /\ (todo = {} \/ full)

\* Mutant of traversal_result: the arms that turn Err(Cancelled) into Ok are
\* missing and every Err is passed on as Other.
traversal_result_strict(processing_result, aggregator_result) ==
    IF processing_result # "Ok" \/ aggregator_result # "Ok" THEN "Other" ELSE "Ok"

\* worker_result, aggregator_result and the two `?`: Cancelled counts as Ok.
traversal_result(processing_result, aggregator_result) ==
    IF processing_result \notin {"Ok", "Cancelled"} THEN processing_result
    ELSE IF aggregator_result \notin {"Ok", "Cancelled"} THEN aggregator_result
    ELSE "Ok"

\* match aggregator_handle.join(): the result of aggregate_entries, or
\* Err(Other) for an aggregator that panicked. aggregate_entries holds no
\* operation that panics (a refused send returns Err, the counters count
\* records), so no step gives the aggregator that result.
join_result(aggregator_result) ==
    IF aggregator_result = "Panicked" THEN "Other" ELSE aggregator_result

\* aggregator_handle.join(), the return of traversal_worker and the end of
\* the thread. try_for_each returns one of the Err values the tasks returned.
Join ==
    /\ PoolFinished
    /\ apc = "done"
    /\ \E pr \in (IF errs = {} THEN {"Ok"} ELSE errs) :
          LET res == traversal_result(pr, join_result(aresult))
          IN /\ CanReport(res)
             /\ tresult' = res
             /\ batchCh' = report(res, batchCh)
    /\ tpc' = "exit"
    /\ UNCHANGED <<auxVars, opts, token, histVars, walkerVars, flag, poolVars, entryCh,
                   aggVars, consVars>>

(* ------------------------- aggregate_entries -------------------------- *)

\* The entry of `pending` with the given index, if any.
PendingAt(p, n) == {r \in p : r.index = n}

\* Mutant of chunk_full: the chunk is sent one record late.
chunk_full_late(len, size) == len > size

\* if chunk.len() >= options.chunk_size, in the drain loop and the flush loop.
chunk_full(len, size) == len >= size

\* while let Some(next_entry) = pending.remove(&next_index): runs until the
\* next index is missing or the chunk has reached chunk_size and must be sent.
RECURSIVE Drain(_, _, _, _)
Drain(c, p, n, size) ==
    IF PendingAt(p, n) = {}
    THEN [chunk |-> c, pending |-> p, next_index |-> n, send |-> FALSE]
    ELSE LET r == CHOOSE x \in PendingAt(p, n) : TRUE
             c2 == Append(c, r)
         IN IF chunk_full(Len(c2), size)
            THEN [chunk |-> c2, pending |-> p \ {r}, next_index |-> n + 1, send |-> TRUE]
            ELSE Drain(c2, p \ {r}, n + 1, size)

\* Mutant of FirstPending: a map that iterates from the largest key.
LastPending(p) == CHOOSE r \in p : \A q \in p : r.index >= q.index

\* The first entry `pending.into_iter()` yields: BTreeMap iterates in key order.
FirstPending(p) == CHOOSE r \in p : \A q \in p : r.index <= q.index

\* for (_idx, entry) in pending.into_iter(): runs until the map is exhausted
\* or the chunk has reached chunk_size and must be sent.
RECURSIVE Flush(_, _, _)
Flush(c, p, size) ==
    IF p = {}
    THEN [chunk |-> c, pending |-> p, send |-> FALSE]
    ELSE LET r == FirstPending(p)
             c2 == Append(c, r)
         IN IF chunk_full(Len(c2), size)
            THEN [chunk |-> c2, pending |-> p \ {r}, send |-> TRUE]
            ELSE Flush(c2, p \ {r}, size)

\* After the flush loop: the last partial chunk is sent if it is not empty.
AfterFlush(c) == IF c = <<>> THEN "summary" ELSE "send_final"

\* Mutant of count_received: a received record is not counted.
count_skipped(n) == n

\* processed += 1 for every record the aggregator receives.
count_received(n) == n + 1

\* The aggregator's test on a record's info.type.
is_error_info(info_type) == info_type = "error"

\* Mutant of PushFailed: every record is pushed, whatever its info.type.
PushFailedAll(failed, rec) == Append(failed, rec.index)

\* failed_files.push(..) for a record whose info.type is "error".
PushFailed(failed, rec) ==
    IF is_error_info(rec.info) THEN Append(failed, rec.index) ELSE failed

\* Mutant of MakeSummary: processed_files counts the walker's entries a
\* second time.
MakeSummaryOvercount(inc, exc, failed, stopped, proc) ==
    [total_files |-> inc + exc,
     excluded_files |-> exc,
     included_files |-> inc,
     failed_files |-> failed,
     stopped_early |-> stopped,
     processed_files |-> proc + inc + exc + 1]

\* The json!({...}) of the summary. excluded_percentage and hash_algorithm
\* are functions of these fields and of the options and are left out.
MakeSummary(inc, exc, failed, stopped, proc) ==
    [total_files |-> inc + exc,
     excluded_files |-> exc,
     included_files |-> inc,
     failed_files |-> failed,
     stopped_early |-> stopped,
     processed_files |-> proc]

\* One turn of `for (index, entry) in entry_rx.iter()` up to its first send.
AggRecv ==
    /\ apc = "recv"
    /\ entryCh # <<>>
    /\ LET rec == Head(entryCh)
           d == Drain(chunk, pending \cup {rec}, next_index, opts.chunk_size)
       IN /\ entryCh' = Tail(entryCh)
          /\ processed' = count_received(processed)
          /\ failed_files' = PushFailed(failed_files, rec)
          /\ seenExcluded' = (IF rec.info = "excluded" THEN seenExcluded + 1 ELSE seenExcluded)
          /\ chunk' = d.chunk
          /\ pending' = d.pending
          /\ next_index' = d.next_index
          /\ apc' = (IF d.send THEN "send_drain" ELSE "recv")
    /\ UNCHANGED <<auxVars, opts, token, histVars, tpc, walkerVars, flag, poolVars,
                   tresult, aresult, batchCh, consVars>>

\* entry_rx.iter() ends: the channel is empty and every sender is dropped. The flush loop runs up
\* to its first send.
AggEnd ==
    /\ apc = "recv"
    /\ entryCh = <<>>
    /\ PoolFinished
    /\ LET f == Flush(chunk, pending, opts.chunk_size)
       IN /\ chunk' = f.chunk
          /\ pending' = f.pending
          /\ apc' = (IF f.send THEN "send_flush" ELSE AfterFlush(f.chunk))
    /\ UNCHANGED <<auxVars, opts, token, histVars, tpc, walkerVars, flag, poolVars,
                   tresult, entryCh, aresult, next_index, processed,
                   failed_files, seenExcluded, batchCh, consVars>>

\* sender.send(TraversalMessage::Entries(..)) at one of the three places:
\* a refused send stores the flag and returns Err(Cancelled); a full channel
\* blocks; after the send the loop the send was in goes on.
AggSend ==
    /\ apc \in {"send_drain", "send_flush", "send_final"}
    /\ IF ReceiverGone
       THEN /\ flag' = TRUE
            /\ apc' = "done"
            /\ aresult' = "Cancelled"
            /\ UNCHANGED <<batchCh, chunk, pending, next_index>>
       ELSE /\ Len(batchCh) < opts.chunk_size * BatchChannelFactor
            /\ batchCh' = Append(batchCh, [type |-> "Entries", entries |-> chunk])
            /\ UNCHANGED <<flag, aresult>>
            /\ CASE apc = "send_drain" ->
                      LET d == Drain(<<>>, pending, next_index, opts.chunk_size)
                      IN /\ chunk' = d.chunk
                         /\ pending' = d.pending
                         /\ next_index' = d.next_index
                         /\ apc' = (IF d.send THEN "send_drain" ELSE "recv")
                 [] apc = "send_flush" ->
                      LET f == Flush(<<>>, pending, opts.chunk_size)
                      IN /\ chunk' = f.chunk
                         /\ pending' = f.pending
                         /\ apc' = (IF f.send THEN "send_flush" ELSE AfterFlush(f.chunk))
                         /\ UNCHANGED next_index
                 [] OTHER ->
                      /\ chunk' = <<>>
                      /\ apc' = "summary"
                      /\ UNCHANGED <<pending, next_index>>
    /\ UNCHANGED <<auxVars, opts, token, histVars, tpc, walkerVars, poolVars, tresult,
                   entryCh, processed, failed_files, seenExcluded, consVars>>

\* The summary is built (the flag is loaded) and sent; aggregate_entries
\* returns Ok, or Err(Cancelled) when the send is refused.
AggSummary ==
    /\ apc = "summary"
    /\ IF ReceiverGone
       THEN /\ flag' = TRUE
            /\ aresult' = "Cancelled"
            /\ UNCHANGED batchCh
       ELSE /\ Len(batchCh) < opts.chunk_size * BatchChannelFactor
            /\ batchCh' = Append(batchCh,
                   [type |-> "Summary",
                    summary |-> MakeSummary(included, excluded, failed_files,
                                            flag, processed)])
            /\ aresult' = "Ok"
            /\ UNCHANGED flag
    /\ apc' = "done"
    /\ UNCHANGED <<auxVars, opts, token, histVars, tpc, walkerVars, poolVars, tresult,
                   entryCh, chunk, pending, next_index, processed, failed_files,
                   seenExcluded, consVars>>

(* -------------------- TraversalIterator::__next__ --------------------- *)

\* Mutant of receiver_after: the Summary arm keeps the receiver.
receiver_kept(msg) == "Some"

\* self.receiver after __next__ has handled a message: the Summary arm sets
\* self.receiver = None, the other arms leave it.
receiver_after(msg) == IF msg.type = "Summary" THEN "None" ELSE "Some"

\* What __next__ does with a received message.
OnMessage(msg) ==
    CASE msg.type = "Entries" ->
           /\ log' = log \o msg.entries
           /\ nbatches' = nbatches + 1
           /\ lastPull' = "entries"
           /\ receiver' = receiver_after(msg)
           /\ UNCHANGED <<summaries, raised>>
      [] msg.type = "Summary" ->
           /\ receiver' = receiver_after(msg)
           /\ summaries' = Append(summaries, msg.summary)
           /\ lastPull' = "summary"
           /\ UNCHANGED <<log, nbatches, raised>>
      [] OTHER ->
           /\ raised' = raised + 1
           /\ lastPull' = "error"
           /\ receiver' = receiver_after(msg)
           /\ UNCHANGED <<log, nbatches, summaries>>

\* receiver.recv() returns a message.
IterNext ==
    /\ cpc \in {"python", "recv"}
    /\ receiver = "Some"
    /\ batchCh # <<>>
    /\ OnMessage(Head(batchCh))
    /\ batchCh' = Tail(batchCh)
    /\ cpc' = "python"
    /\ UNCHANGED <<auxVars, opts, token, histVars, tpc, walkerVars, flag, poolVars,
                   tresult, entryCh, aggVars>>

\* receiver.recv() finds the channel empty and a sender alive: the consumer
\* waits inside __next__, holding the interpreter lock.
IterBlock ==
    /\ cpc = "python"
    /\ receiver = "Some"
    /\ batchCh = <<>>
    /\ tpc # "exit"
    /\ cpc' = "recv"
    /\ UNCHANGED <<auxVars, opts, token, histVars, tpc, walkerVars, flag, poolVars,
                   tresult, entryCh, aggVars, batchCh, receiver, log, nbatches,
                   summaries, raised, lastPull>>

\* receiver.recv() fails (channel empty, every sender dropped): end of stream.
IterEos ==
    /\ cpc \in {"python", "recv"}
    /\ receiver = "Some"
    /\ batchCh = <<>>
    /\ tpc = "exit"
    /\ receiver' = "None"
    /\ lastPull' = "eos"
    /\ cpc' = "python"
    /\ UNCHANGED <<auxVars, opts, token, histVars, tpc, walkerVars, flag, poolVars,
                   tresult, entryCh, aggVars, batchCh, log, nbatches, summaries,
                   raised>>

\* self.receiver is None: Ok(None).
IterNone ==
    /\ cpc = "python"
    /\ receiver = "None"
    /\ lastPull' = "eos"
    /\ UNCHANGED <<auxVars, opts, token, histVars, tpc, walkerVars, flag, poolVars,
                   tresult, entryCh, aggVars, batchCh, cpc, receiver, log,
                   nbatches, summaries, raised>>

\* The consumer drops the iterator, and with it the receiver.
Drop ==
    /\ cpc = "python"
    /\ receiver = "Some"
    /\ cpc' = "dropped"
    /\ UNCHANGED <<auxVars, opts, token, histVars, tpc, walkerVars, flag, poolVars,
                   tresult, entryCh, aggVars, batchCh, receiver, log, nbatches,
                   summaries, raised, lastPull>>

(* --------------------------- specification ---------------------------- *)

Walker == (\E kind \in EntryKinds : WalkStep(kind) \/ WalkEnd) \/ GatherErr

Pool ==
    \/ BuildOk
    \/ BuildFail
    \/ SpawnPanic
    \/ \E i \in todo : TaskStart(i)
    \/ \E t \in tasks : (\E info \in InfoTypes : TaskPoll(t, info)) \/ TaskErr(t) \/ TaskSend(t)
    \/ Join

Aggregator == AggRecv \/ AggEnd \/ AggSend \/ AggSummary

Consumer == IterNext \/ IterBlock \/ IterEos \/ IterNone

Next == Cancel \/ Break \/ Walker \/ Pool \/ Aggregator \/ Consumer \/ Drop

Spec == Init /\ [][Next]_vars

\* A consumer that keeps pulling: the iterator is never dropped, the runs are
\* the smaller ones, and every thread that can take a step eventually does
\* (operating-system threads; the host is not obliged to touch the token).
FairInit ==
    /\ Init
    /\ unwalked <= LiveMaxEntries
    /\ opts.threads <= LiveMaxThreads
    /\ opts.chunk_size <= LiveMaxChunk

FairNext == Cancel \/ Break \/ Walker \/ Pool \/ Aggregator \/ Consumer

FairSpec ==
    /\ FairInit
    /\ [][FairNext]_vars
    /\ WF_vars(Walker)
    /\ WF_vars(Pool)
    /\ WF_vars(Aggregator)
    /\ WF_vars(Consumer)

\* The smaller runs with every step left to the scheduler: nothing is
\* assumed about the threads' progress, and the consumer may drop the
\* iterator.
ShortSpec == FairInit /\ [][Next]_vars

\* Largest number of entries of the walks whose consumer may drop the
\* iterator at any time: with one thread and chunk_size = 1 the two channels
\* hold four messages each, and ten files fill both.
DropMaxEntries == 11

\* The walk of a readable tree of directories and included files.
PlainWalker ==
    \/ \E kind \in {"dir", "file"} : WalkStep(kind) /\ ~nextErr'
    \/ WalkEnd

\* The pool of one thread on files that are all read as text: rayon's one
\* worker runs the left half of every split first, so it takes the items in
\* the order of their indices.
TextPool ==
    \/ BuildOk
    \/ BuildFail
    \/ SpawnPanic
    \/ \E i \in todo : (\A j \in todo : i <= j) /\ TaskStart(i)
    \/ \E t \in tasks : TaskPoll(t, "text") \/ TaskSend(t)
    \/ Join

DropInit ==
    /\ PipeStart(DropMaxEntries)
    /\ AuxIdle
    /\ opts = [threads |-> 1, chunk_size |-> 1]
    /\ token # "broken"
    /\ ~nextErr

DropNext == Cancel \/ PlainWalker \/ TextPool \/ Aggregator \/ Consumer \/ Drop

\* The threads of the traversal take their steps; the consumer pulls or
\* not, and drops the iterator or not, as it likes.
DropSpec ==
    /\ DropInit
    /\ [][DropNext]_vars
    /\ WF_vars(PlainWalker)
    /\ WF_vars(TextPool)
    /\ WF_vars(Aggregator)

(* ===================== the per-file functions ========================= *)

(* ---------------------------- bounds ---------------------------------- *)

\* Largest file size and largest max_file_size, in units of SizeUnit.
MaxSizeUnits == 4

(* ------------------------ program constants --------------------------- *)

\* const STREAM_CHUNK_SIZE: usize = 256 * 1024
STREAM_CHUNK_SIZE == 262144

\* const MAX_BINARY_CONTENT_BYTES: usize = 3 * 1024 * 1024
MAX_BINARY_CONTENT_BYTES == 3145728

\* const MAX_TEXT_CONTENT_BYTES: usize = 5 * 1024 * 1024
MAX_TEXT_CONTENT_BYTES == 5242880

(* ------------------------------ inputs -------------------------------- *)

\* File sizes are taken on and next to the multiples of 1 MiB.
SizeUnit == 4 * STREAM_CHUNK_SIZE

FileSizes == {k * SizeUnit + d : k \in 0..MaxSizeUnits, d \in {0, 1}}

\* options.max_file_size: multiples of 1 MiB, and 10 MiB.
MaxFileSizes == {k * SizeUnit : k \in 0..(MaxSizeUnits + 1)} \cup {10 * SizeUnit}

\* What the filesystem and the classifier answer for one file:
\*   stat      path.metadata() in process_path: "ok" or "err"
\*   size      metadata.len()
\*   image     the extension is one of options.image_extensions
\*   classify  content::classify_binary: "text", "binary" or "err"
\*   read      the content reader's I/O: "ok", "stat" (its metadata() fails)
\*             or "open" (File::open or a read fails)
\*   hash      the hasher's I/O: "ok", "absent" (File::open gives NotFound),
\*             "denied" (File::open fails otherwise), "read" (a read fails)
Files ==
    [stat : {"ok", "err"},
     size : FileSizes,
     image : BOOLEAN,
     classify : {"text", "binary", "err"},
     read : {"ok", "stat", "open"},
     hash : {"ok", "absent", "denied", "read"}]

\* The options process_path reads.
FileOptions ==
    [max_file_size : MaxFileSizes,
     include_binary : BOOLEAN,
     hashing_enabled : BOOLEAN]

Min(a, b) == IF a <= b THEN a ELSE b

\* A record with one more key (serde_json's Map::insert: an existing key is
\* overwritten).
Insert(map, key, value) ==
    [k \in DOMAIN map \cup {key} |-> IF k = key THEN value ELSE map[k]]

(* --------------------------- content.rs ------------------------------- *)

\* The read loop of both previews: reads chunks of at most STREAM_CHUNK_SIZE
\* until `limit` bytes are read or the file (file_size bytes) ends; the value
\* is total_read.
RECURSIVE read_loop(_, _, _)
read_loop(total_read, limit, file_size) ==
    IF total_read < limit
    THEN LET to_read == Min(STREAM_CHUNK_SIZE, limit - total_read)
             read == Min(to_read, file_size - total_read)
         IN IF read = 0 THEN total_read
            ELSE read_loop(total_read + read, limit, file_size)
    ELSE total_read

\* Mutant of read_binary_preview: the key `truncated` is never inserted.
read_binary_preview_unmarked(f, max_preview_bytes) ==
    IF f.read = "stat" THEN [ok |-> FALSE, err |-> "Io"]
    ELSE IF f.size > max_preview_bytes
    THEN [ok |-> TRUE,
          value |-> [type |-> "excluded", reason |-> "binary_too_large", size |-> f.size]]
    ELSE IF f.read = "open" THEN [ok |-> FALSE, err |-> "Io"]
    ELSE LET read_limit == Min(max_preview_bytes, MAX_BINARY_CONTENT_BYTES)
             preview_size == Min(f.size, read_limit)
             total_read == read_loop(0, preview_size, f.size)
         IN [ok |-> TRUE,
             value |-> [type |-> "binary", content |-> "base64 of the bytes read",
                        encoding |-> "base64", preview_bytes |-> total_read]]

\* read_binary_preview(path, max_preview_bytes): [ok, value] with the info
\* object, or [ok |-> FALSE] for an I/O error.
read_binary_preview(f, max_preview_bytes) ==
    IF f.read = "stat" THEN [ok |-> FALSE, err |-> "Io"]
    ELSE IF f.size > max_preview_bytes
    THEN [ok |-> TRUE,
          value |-> [type |-> "excluded", reason |-> "binary_too_large", size |-> f.size]]
    ELSE IF f.read = "open" THEN [ok |-> FALSE, err |-> "Io"]
    ELSE LET read_limit == Min(max_preview_bytes, MAX_BINARY_CONTENT_BYTES)
             preview_size == Min(f.size, read_limit)
             total_read == read_loop(0, preview_size, f.size)
             result == [type |-> "binary", content |-> "base64 of the bytes read",
                        encoding |-> "base64", preview_bytes |-> total_read]
         IN [ok |-> TRUE,
             value |-> IF f.size > total_read
                       THEN Insert(result, "truncated", TRUE)
                       ELSE result]

\* read_text_preview(path, max_preview_bytes, encoding): the same shape. The
\* detected encoding and the decoded text are a function of the bytes read.
read_text_preview(f, max_preview_bytes) ==
    IF f.read \in {"stat", "open"} THEN [ok |-> FALSE, err |-> "Io"]
    ELSE LET read_limit == Min(max_preview_bytes, MAX_TEXT_CONTENT_BYTES)
             total_read == read_loop(0, read_limit, f.size)
             result == [type |-> "text", encoding |-> "detected encoding",
                        content |-> "decoded text", preview_bytes |-> total_read]
         IN [ok |-> TRUE,
             value |-> IF f.size > read_limit
                       THEN Insert(result, "truncated", TRUE)
                       ELSE result]

(* --------------------------- hashing.rs ------------------------------- *)

\* compute_file_hash(path): Ok(Some(digest)), Ok(None) for a file that is
\* absent at open time, Err(NativeError::Io) for any other failure of
\* File::open and for a failing read (`?` on an io::Error).
compute_file_hash(f) ==
    CASE f.hash = "ok" -> [ok |-> TRUE, value |-> [some |-> TRUE, digest |-> "xxh64 digest"]]
      [] f.hash = "absent" -> [ok |-> TRUE, value |-> [some |-> FALSE]]
      [] OTHER -> [ok |-> FALSE, err |-> "Io"]

(* ------------------------ process_path -------------------------------- *)

\* The info object a failed step becomes.
error_info(content, exception_type) ==
    [type |-> "error", content |-> content, exception_type |-> exception_type,
     exception_message |-> "message of the error"]

\* The record of an early return: json!({"parent", "filename", "info"}).
early_record(info) ==
    [parent |-> "relative parent", filename |-> "file name", info |-> info]

\* The content reader's info, or the error info its failure becomes. Both
\* readers get options.max_file_size as their max_preview_bytes.
content_info(f, o) ==
    IF f.classify = "binary"
    THEN LET r == read_binary_preview(f, o.max_file_size)
         IN IF r.ok THEN r.value
            ELSE [type |-> "error", content |-> "Failed to read binary file",
                  exception_type |-> "NativeError",
                  exception_message |-> "message of the error"]
    ELSE LET r == read_text_preview(f, o.max_file_size)
         IN IF r.ok THEN r.value
            ELSE [type |-> "error", content |-> "Failed to read text file",
                  exception_type |-> "NativeError",
                  exception_message |-> "message of the error"]

\* if let Value::Object(map) = &mut info: size, permissions, modified, created
\* and timezone are inserted into the info, whatever its type.
stamped_info(info, size) ==
    Insert(Insert(Insert(Insert(Insert(info,
        "size", size),
        "permissions", "mode in octal"),
        "modified", "modified time"),
        "created", "created time"),
        "timezone", "timezone label")

\* serde_json's Value::Null and Value::String.
JNull == [json |-> "null"]

JString(str) == [json |-> "string", str |-> str]

\* value.map(Value::String).unwrap_or(Value::Null)
option_to_json(opt) == IF opt.some THEN JString(opt.digest) ELSE JNull

\* Mutant of hash_value: a hasher error is dropped and the field is null.
hash_value_silent(f) ==
    LET h == compute_file_hash(f) IN IF h.ok THEN option_to_json(h.value) ELSE JNull

\* hash_value when hashing is enabled: the digest, null for an absent file,
\* or the error object {type, content}.
hash_value(f) ==
    LET h == compute_file_hash(f)
    IN IF h.ok THEN option_to_json(h.value)
       ELSE [type |-> "error", content |-> "Failed to compute hash"]

\* The record at the end of process_path: parent, filename, info, stat, and
\* hash when hashing is enabled.
full_record(f, o, info) ==
    LET entry == [parent |-> "relative parent", filename |-> "file name",
                  info |-> info,
                  stat |-> [size |-> f.size, mtime |-> "mtime", ctime |-> "ctime",
                            mode |-> "mode"]]
    IN IF o.hashing_enabled THEN Insert(entry, "hash", hash_value(f)) ELSE entry

\* Mutant of process_path: the classifier is consulted before the size limit.
process_path_classify_first(f, o) ==
    IF f.stat = "err"
    THEN early_record(error_info("Failed to get file stats", "OSError"))
    ELSE IF f.classify = "err"
    THEN early_record(error_info("Failed to classify file", "NativeError"))
    ELSE IF (f.classify = "binary" \/ f.image) /\ ~o.include_binary
    THEN early_record([type |-> "excluded", reason |-> "binary_or_image"])
    ELSE IF f.size > o.max_file_size
    THEN early_record([type |-> "excluded", reason |-> "file_size", size |-> f.size])
    ELSE full_record(f, o, stamped_info(content_info(f, o), f.size))

\* process_path(path, options).
process_path(f, o) ==
    IF f.stat = "err"
    THEN early_record(error_info("Failed to get file stats", "OSError"))
    ELSE IF f.size > o.max_file_size
    THEN early_record([type |-> "excluded", reason |-> "file_size", size |-> f.size])
    ELSE IF f.classify = "err"
    THEN early_record(error_info("Failed to classify file", "NativeError"))
    ELSE IF (f.classify = "binary" \/ f.image) /\ ~o.include_binary
    THEN early_record([type |-> "excluded", reason |-> "binary_or_image"])
    ELSE full_record(f, o, stamped_info(content_info(f, o), f.size))

(* ----------------------------- lib.rs --------------------------------- *)

\* compute_hash(path): the digest or None; an error of the hasher is raised
\* with the error's kind.
compute_hash(f) ==
    LET h == compute_file_hash(f)
    IN IF h.ok THEN [raised |-> FALSE, value |-> h.value]
       ELSE [raised |-> TRUE, kind |-> h.err]

(* ----------------------------- actions -------------------------------- *)

\* The traversal's worker applies process_path to a file.
ProcessPath ==
    /\ pout.fn = "none"
    /\ pout' = [fn |-> "process_path", value |-> process_path(pfile, popts)]
    /\ UNCHANGED <<pipeVars, lockVars, treeVars, cacheVars, mimeVars, pfile, popts>>

\* The host calls compute_hash on a file.
ComputeHash ==
    /\ pout.fn = "none"
    /\ pout' = [fn |-> "compute_hash", value |-> compute_hash(pfile)]
    /\ UNCHANGED <<pipeVars, lockVars, treeVars, cacheVars, mimeVars, pfile, popts>>

FileInit ==
    /\ PipeIdle
    /\ LockIdle
    /\ MimeIdle
    /\ TreeIdle
    /\ CacheIdle
    /\ pfile \in Files
    /\ popts \in FileOptions
    /\ pout = [fn |-> "none"]

FileNext == ProcessPath \/ ComputeHash

FileSpec == FileInit /\ [][FileNext]_vars

(* --------------- the previews, called by the host --------------------- *)

\* The files the host asks a preview of: the sizes of FileSizes and one
\* above the text preview cap.
PreviewFiles ==
    [size : FileSizes \cup {MAX_TEXT_CONTENT_BYTES, MAX_TEXT_CONTENT_BYTES + 1},
     read : {"ok", "stat", "open"}]

\* max_bytes: on and next to the multiples of 1 MiB, a value inside a chunk,
\* and 10 MiB.
PreviewLimits ==
    {k * SizeUnit + d : k \in 0..(MaxSizeUnits + 1), d \in {0, 1}}
        \cup {STREAM_CHUNK_SIZE + 7, 10 * SizeUnit}

\* lib.rs read_binary_preview(path, max_bytes): the info, or the error raised.
ReadBinaryPreview ==
    /\ pout.fn = "none"
    /\ pout' = [fn |-> "read_binary_preview",
                value |-> read_binary_preview(pfile, popts.max_bytes)]
    /\ UNCHANGED <<pipeVars, lockVars, treeVars, cacheVars, mimeVars, pfile, popts>>

\* lib.rs read_text_preview(path, max_bytes, encoding).
ReadTextPreview ==
    /\ pout.fn = "none"
    /\ pout' = [fn |-> "read_text_preview",
                value |-> read_text_preview(pfile, popts.max_bytes)]
    /\ UNCHANGED <<pipeVars, lockVars, treeVars, cacheVars, mimeVars, pfile, popts>>

PreviewInit ==
    /\ PipeIdle
    /\ LockIdle
    /\ MimeIdle
    /\ TreeIdle
    /\ CacheIdle
    /\ pfile \in PreviewFiles
    /\ popts \in [max_bytes : PreviewLimits]
    /\ pout = [fn |-> "none"]

PreviewNext == ReadBinaryPreview \/ ReadTextPreview

PreviewSpec == PreviewInit /\ [][PreviewNext]_vars

(* ========================= gather_files on a tree ===================== *)

(* ---------------------------- bounds ---------------------------------- *)

\* Largest number of entries below the root of a tree.
MaxTreeEntries == 5

(* ------------------------------ inputs -------------------------------- *)

\* Basenames, in lexicographic order.
NameOrder == <<"a", "b">>

Names == {NameOrder[i] : i \in 1..Len(NameOrder)}

NameRank(name) == CHOOSE i \in 1..Len(NameOrder) : NameOrder[i] = name

\* Paths relative to the root, as the sequence of their components: the
\* root, its children and its grandchildren.
TreePaths ==
    {<<>>} \cup {<<x>> : x \in Names} \cup {<<x, y>> : x \in Names, y \in Names}

Parent(path) == SubSeq(path, 1, Len(path) - 1)

\* What an entry is: a directory, a directory whose listing fails, a regular
\* file, or something else (a symlink that is not followed, a socket).
NodeKinds == {"dir", "baddir", "file", "other"}

\* A tree: the root and at most MaxTreeEntries entries below it, each below a
\* directory that can be listed.
IsTree(kind) ==
    /\ <<>> \in DOMAIN kind
    /\ Cardinality(DOMAIN kind) <= MaxTreeEntries + 1
    /\ \A p \in DOMAIN kind \ {<<>>} :
          Parent(p) \in DOMAIN kind /\ kind[Parent(p)] = "dir"

TreeKinds ==
    UNION {{kind \in [S -> NodeKinds] : IsTree(kind)} :
           S \in {T \in SUBSET TreePaths : Cardinality(T) <= MaxTreeEntries + 1}}

\* The tree and the basename of its root.
Trees == [name : Names, kind : TreeKinds]

\* The options gather_files reads. exclude_patterns is given by the set of
\* basenames that some pattern matches.
WalkOptions ==
    [excluded_folders : SUBSET Names,
     excluded_files : SUBSET Names,
     pattern_matches : {{}} \cup {{x} : x \in Names}]

(* ------------------------------ walkdir ------------------------------- *)

\* entry.file_name(): the last component, the root's own name for the root.
file_name(t, path) == IF path = <<>> THEN t.name ELSE path[Len(path)]

\* matches_patterns(name, &options.exclude_patterns)
matches_patterns(name, o) == name \in o.pattern_matches

\* fs::read_dir of a directory: its entries, in no order; one error item for
\* a directory that cannot be listed.
read_dir(t, path) ==
    IF t.kind[path] = "baddir"
    THEN {[err |-> TRUE, path |-> path]}
    ELSE {[err |-> FALSE, path |-> q] : q \in {r \in DOMAIN t.kind : r # <<>> /\ Parent(r) = path}}

\* The stack after walkdir has yielded an item: a directory's listing is
\* pushed before the directory is yielded.
pushed(t, stack, item) ==
    IF ~item.err /\ t.kind[item.path] \in {"dir", "baddir"}
    THEN Append(stack, read_dir(t, item.path))
    ELSE stack

\* Exhausted listings are popped before the next item is looked for.
RECURSIVE popped(_)
popped(stack) ==
    IF stack # <<>> /\ stack[Len(stack)] = {}
    THEN popped(SubSeq(stack, 1, Len(stack) - 1))
    ELSE stack

\* walker.skip_current_dir(): the listing of the directory yielded last is
\* dropped.
skip_current_dir(stack) == SubSeq(stack, 1, Len(stack) - 1)

(* ---------------------------- gather_files ---------------------------- *)

\* Mutant of is_excluded_file: the patterns are not applied to files.
is_excluded_file_by_name_only(name, o) == name \in o.excluded_files

\* options.excluded_files.contains(&name) || matches_patterns(&name, ..)
is_excluded_file(name, o) ==
    name \in o.excluded_files \/ matches_patterns(name, o)

\* options.excluded_folders.contains(name) || matches_patterns(name, ..)
is_excluded_folder(name, o) ==
    name \in o.excluded_folders \/ matches_patterns(name, o)

\* The body of the loop for the item walker.next() has yielded, `stack` being
\* walkdir's stack after the item was yielded.
GatherItem(item, stack) ==
    IF item.err
    THEN \* Err(_) => continue
         /\ wstack' = popped(stack)
         /\ UNCHANGED <<files, wincluded, wexcluded>>
    ELSE LET kind == tree.kind[item.path]
             name == file_name(tree, item.path)
         IN CASE kind \in {"dir", "baddir"} ->
                   /\ wstack' = popped(IF is_excluded_folder(name, wopts)
                                       THEN skip_current_dir(stack)
                                       ELSE stack)
                   /\ UNCHANGED <<files, wincluded, wexcluded>>
              [] kind = "other" ->
                   /\ wstack' = popped(stack)
                   /\ UNCHANGED <<files, wincluded, wexcluded>>
              [] OTHER ->
                   /\ wstack' = popped(stack)
                   /\ IF is_excluded_file(name, wopts)
                      THEN /\ wexcluded' = wexcluded + 1
                           /\ UNCHANGED <<files, wincluded>>
                      ELSE /\ wincluded' = wincluded + 1
                           /\ files' = Append(files, item.path)
                           /\ UNCHANGED wexcluded

\* The first walker.next(): the root itself.
GatherRoot ==
    /\ wpc = "start"
    /\ wpc' = "walk"
    /\ LET item == [err |-> FALSE, path |-> <<>>]
       IN GatherItem(item, pushed(tree, <<>>, item))
    /\ UNCHANGED <<pipeVars, lockVars, fileVars, cacheVars, mimeVars, tree, wopts>>

\* A later walker.next(): any item the listing on top of the stack has yet
\* to yield (the filesystem decides the order).
GatherNext ==
    /\ wpc = "walk"
    /\ wstack # <<>>
    /\ \E item \in wstack[Len(wstack)] :
          LET rest == [wstack EXCEPT ![Len(wstack)] = @ \ {item}]
          IN GatherItem(item, pushed(tree, rest, item))
    /\ UNCHANGED <<pipeVars, lockVars, fileVars, cacheVars, mimeVars, tree, wopts, wpc>>

\* walker.next() returns None: gather_files returns.
GatherEnd ==
    /\ wpc = "walk"
    /\ wstack = <<>>
    /\ wpc' = "done"
    /\ UNCHANGED <<pipeVars, lockVars, fileVars, cacheVars, mimeVars, tree, wopts, wstack, files,
                   wincluded, wexcluded>>

WalkInit ==
    /\ PipeIdle
    /\ LockIdle
    /\ MimeIdle
    /\ FileIdle
    /\ CacheIdle
    /\ tree \in Trees
    /\ wopts \in WalkOptions
    /\ wpc = "start"
    /\ wstack = <<>>
    /\ files = <<>>
    /\ wincluded = 0
    /\ wexcluded = 0

WalkNext == GatherRoot \/ GatherNext \/ GatherEnd

WalkSpec == WalkInit /\ [][WalkNext]_vars

(* ============================ the cache =============================== *)

(* ---------------------------- bounds ---------------------------------- *)

\* Largest size and largest finite mtime of a cache entry.
MaxCacheStamp == 1

\* Largest number of set operations on the database.
MaxCacheSets == 2

(* ------------------------------- f64 ---------------------------------- *)

\* An f64: a finite value, named by the digits of its shortest decimal
\* int.frac (the one ryu prints), or a value that is not finite.
Finite(int, frac) == [cls |-> "finite", int |-> int, frac |-> frac]

Inf == [cls |-> "inf", int |-> 0, frac |-> <<0>>]

NaN == [cls |-> "nan", int |-> 0, frac |-> <<0>>]

\* f64::is_finite
is_finite(f) == f.cls = "finite"

\* 51.248178375505404, an f64 with 17 significant digits.
LongFloat == Finite(51, <<2, 4, 8, 1, 7, 8, 3, 7, 5, 5, 0, 5, 4, 0, 4>>)

\* 51.24817837550541, the f64 next above LongFloat.
LongFloatParsed == Finite(51, <<2, 4, 8, 1, 7, 8, 3, 7, 5, 5, 0, 5, 4, 1>>)

(* ------------------------- Python objects ----------------------------- *)

PyNone == [py |-> "None"]

PyBool(b) == [py |-> "bool", b |-> b]

PyInt(n) == [py |-> "int", n |-> n]

PyFloat(f) == [py |-> "float", f |-> f]

PyStr(s) == [py |-> "str", s |-> s]

PyList(items) == [py |-> "list", items |-> items]

PyTuple(items) == [py |-> "tuple", items |-> items]

PyBytes(bytes) == [py |-> "bytes", items |-> bytes]

\* A dict with str keys.
PyDict(map) == [py |-> "dict", map |-> map]

\* An object of a type py_to_value has no arm for: a set.
PySet == [py |-> "set"]

(* ------------------------------ inputs -------------------------------- *)

\* file_path arguments.
CachePaths == {"/p", "/q"}

\* file_hash: Option<&str>.
CacheHashes == {[some |-> FALSE], [some |-> TRUE, str |-> "h1"]}

\* file_info arguments: an empty dict, a text info, an info with a nested
\* dict and the scalars None and bool, infos holding a tuple, a float that is
\* not a number, a float of 17 significant digits and bytes, an info with a
\* list, a short float and a string with quotes in it, and a set.
CacheInfos ==
    {PyDict(<<>>),
     PyDict([type |-> PyStr("text"), size |-> PyInt(1)]),
     PyDict([type |-> PyStr("excluded"),
             detail |-> PyDict([size |-> PyInt(0), truncated |-> PyBool(TRUE),
                                hash |-> PyNone])]),
     PyDict([type |-> PyStr("text"), lines |-> PyTuple(<<PyInt(1), PyInt(2)>>)]),
     PyDict([type |-> PyStr("text"), ratio |-> PyFloat(NaN)]),
     PyDict([type |-> PyStr("text"), ratio |-> PyFloat(LongFloat)]),
     PyDict([type |-> PyStr("text"), magic |-> PyBytes(<<1, 10>>)]),
     PyDict([content |-> PyStr("say \"hi\""), tags |-> PyList(<<PyStr("a")>>),
             ratio |-> PyFloat(Finite(1, <<5>>))]),
     PySet}

\* mtime arguments (f64): the whole seconds up to the bound, infinity and
\* not-a-number.
CacheMtimes == {Finite(n, <<0>>) : n \in 0..MaxCacheStamp} \cup {Inf, NaN}

(* ------------------------- serde_json values -------------------------- *)

JBool(b) == [json |-> "bool", b |-> b]

\* Value::Number holding an integer.
JNumber(n) == [json |-> "number", n |-> n]

\* Value::Number holding an f64, which is finite.
JFloat(f) == [json |-> "number", f |-> f]

JArray(items) == [json |-> "array", items |-> items]

JObject(map) == [json |-> "object", map |-> map]

\* Number::is_f64
is_f64(v) == "f" \in DOMAIN v

\* Number::from_f64(f): None for an f64 that is not finite.
from_f64(f) == IF is_finite(f) THEN [some |-> TRUE, number |-> JFloat(f)] ELSE [some |-> FALSE]

(* ------------------------------ ffi.rs -------------------------------- *)

RECURSIVE py_to_value(_)
RECURSIVE items_to_array(_, _)
RECURSIVE dict_to_map(_, _, _)

\* py_to_value(py, obj): Ok(value), or the TypeError of an unsupported type.
\* A tuple and bytes become arrays, a float that is not finite becomes 0.
py_to_value(obj) ==
    CASE obj.py = "None" -> [ok |-> TRUE, value |-> JNull]
      [] obj.py = "bool" -> [ok |-> TRUE, value |-> JBool(obj.b)]
      [] obj.py = "int" -> [ok |-> TRUE, value |-> JNumber(obj.n)]
      [] obj.py = "float" ->
           LET number == from_f64(obj.f)
           IN [ok |-> TRUE, value |-> IF number.some THEN number.number ELSE JNumber(0)]
      [] obj.py = "str" -> [ok |-> TRUE, value |-> JString(obj.s)]
      [] obj.py \in {"list", "tuple"} -> items_to_array(obj.items, <<>>)
      [] obj.py = "dict" -> dict_to_map(obj.map, DOMAIN obj.map, <<>>)
      [] obj.py = "bytes" ->
           [ok |-> TRUE,
            value |-> JArray([i \in 1..Len(obj.items) |-> JNumber(obj.items[i])])]
      [] OTHER -> [ok |-> FALSE]

\* for item in list_obj.iter() { arr.push(py_to_value(py, item)?) }
items_to_array(items, arr) ==
    IF items = <<>> THEN [ok |-> TRUE, value |-> JArray(arr)]
    ELSE LET item == py_to_value(Head(items))
         IN IF item.ok THEN items_to_array(Tail(items), Append(arr, item.value))
            ELSE item

\* for (key, value) in dict_obj.iter() { map.insert(key, py_to_value(py, value)?) }
dict_to_map(dict, keys, map) ==
    IF keys = {} THEN [ok |-> TRUE, value |-> JObject(map)]
    ELSE LET key == CHOOSE k \in keys : TRUE
             item == py_to_value(dict[key])
         IN IF item.ok THEN dict_to_map(dict, keys \ {key}, Insert(map, key, item.value))
            ELSE item

RECURSIVE value_to_py(_)

\* value_to_py(py, value): an integer number gives an int, any other number
\* a float, an array a list, an object a dict.
value_to_py(value) ==
    CASE value.json = "null" -> PyNone
      [] value.json = "bool" -> PyBool(value.b)
      [] value.json = "number" ->
           IF is_f64(value) THEN PyFloat(value.f) ELSE PyInt(value.n)
      [] value.json = "string" -> PyStr(value.str)
      [] value.json = "array" ->
           PyList([i \in 1..Len(value.items) |-> value_to_py(value.items[i])])
      [] OTHER ->
           PyDict([k \in DOMAIN value.map |-> value_to_py(value.map[k])])

(* ----------------------- serde_json: text ----------------------------- *)

\* The JSON text, as the sequence of its tokens: punctuation, the literals
\* null, true and false, and numbers and strings with their characters.
Punct(c) == [t |-> "punct", c |-> c]

Literal(w) == [t |-> "lit", w |-> w]

NumberText(text) == [t |-> "num", text |-> text]

StringText(text) == [t |-> "str", text |-> text]

\* The decimal digits as characters.
DigitChars == <<"0", "1", "2", "3", "4", "5", "6", "7", "8", "9">>

digit_char(d) == DigitChars[d + 1]

digit_value(c) == (CHOOSE i \in 1..10 : DigitChars[i] = c) - 1

RECURSIVE itoa(_)

\* itoa: the decimal digits of an integer that is not negative.
itoa(n) == IF n < 10 THEN <<digit_char(n)>> ELSE Append(itoa(n \div 10), digit_char(n % 10))

\* ryu: the shortest decimal of a finite f64, int.frac.
ryu(f) == itoa(f.int) \o <<".">> \o [i \in 1..Len(f.frac) |-> digit_char(f.frac[i])]

\* The strings of the inputs that hold a character serde_json escapes, each
\* with its escaped text: a quote is written as backslash, quote.
Escapes == << <<"say \"hi\"", "say \\\"hi\\\"">> >>

\* format_escaped_str: the text between the quotes.
escape(s) ==
    IF \E i \in 1..Len(Escapes) : Escapes[i][1] = s
    THEN Escapes[CHOOSE i \in 1..Len(Escapes) : Escapes[i][1] = s][2]
    ELSE s

\* parse_str: the string of the text between the quotes.
unescape(text) ==
    IF \E i \in 1..Len(Escapes) : Escapes[i][2] = text
    THEN Escapes[CHOOSE i \in 1..Len(Escapes) : Escapes[i][2] = text][1]
    ELSE text

\* The member names of CacheInfos in the order of Rust's String (byte-wise).
KeyOrder ==
    <<"content", "detail", "hash", "lines", "magic", "ratio", "size", "tags",
      "truncated", "type">>

\* The key a serde_json Map yields first: the Map is a BTreeMap<String,
\* Value> (the crate's default features) and iterates in the order of its
\* keys.
first_key(keys) ==
    LET rank(k) == CHOOSE i \in 1..Len(KeyOrder) : KeyOrder[i] = k
    IN CHOOSE k \in keys : \A q \in keys : rank(k) <= rank(q)

RECURSIVE to_string(_)
RECURSIVE members_to_string(_, _)
RECURSIVE items_to_string(_)

\* serde_json::to_string(&value)
to_string(v) ==
    CASE v.json = "null" -> <<Literal("null")>>
      [] v.json = "bool" -> <<Literal(IF v.b THEN "true" ELSE "false")>>
      [] v.json = "number" -> <<NumberText(IF is_f64(v) THEN ryu(v.f) ELSE itoa(v.n))>>
      [] v.json = "string" -> <<StringText(escape(v.str))>>
      [] v.json = "array" -> <<Punct("[")>> \o items_to_string(v.items) \o <<Punct("]")>>
      [] OTHER -> <<Punct("{")>> \o members_to_string(v.map, DOMAIN v.map) \o <<Punct("}")>>

\* The items of an array.
items_to_string(items) ==
    IF items = <<>> THEN <<>>
    ELSE to_string(Head(items))
         \o (IF Len(items) = 1 THEN <<>> ELSE <<Punct(",")>>)
         \o items_to_string(Tail(items))

\* The members of an object, in the order of the map's keys.
members_to_string(map, keys) ==
    IF keys = {} THEN <<>>
    ELSE LET k == first_key(keys)
         IN <<StringText(escape(k)), Punct(":")>> \o to_string(map[k])
            \o (IF keys = {k} THEN <<>> ELSE <<Punct(",")>>)
            \o members_to_string(map, keys \ {k})

RECURSIVE atoi(_, _)

\* The integer of a run of digits, after the digits read before.
atoi(text, n) ==
    IF text = <<>> THEN n ELSE atoi(Tail(text), 10 * n + digit_value(Head(text)))

\* Largest number of significant digits whose integer an f64 holds exactly
\* whatever the digits (10^15 < 2^53).
ExactDigits == 15

\* The digits without the zeros in front.
RECURSIVE significant(_)
significant(text) ==
    IF text # <<>> /\ Head(text) = "0" THEN significant(Tail(text)) ELSE text

\* f64_from_parts, the float parser of serde_json without the feature
\* float_roundtrip: the significand as an f64, divided by the power of ten.
\* With at most ExactDigits digits the significand is exact and the quotient
\* is the nearest f64; with more the significand is rounded before the
\* division, and LongFloat's text gives the f64 next to it.
f64_from_parts(int_text, frac_text) ==
    LET exact == Finite(atoi(int_text, 0),
                        [i \in 1..Len(frac_text) |-> digit_value(frac_text[i])])
    IN IF Len(significant(int_text \o frac_text)) <= ExactDigits THEN exact
       ELSE IF exact = LongFloat THEN LongFloatParsed
       ELSE exact

\* parse_number: an integer, or with a decimal point an f64.
parse_number(text) ==
    IF \E i \in 1..Len(text) : text[i] = "."
    THEN LET dot == CHOOSE i \in 1..Len(text) : text[i] = "."
         IN JFloat(f64_from_parts(SubSeq(text, 1, dot - 1), SubSeq(text, dot + 1, Len(text))))
    ELSE JNumber(atoi(text, 0))

RECURSIVE parse_value(_)
RECURSIVE parse_members(_, _)
RECURSIVE parse_items(_, _)

\* The parser: the value at the head of the text and the rest of the text.
parse_value(text) ==
    LET tok == Head(text) IN
    CASE tok.t = "lit" ->
           [value |-> IF tok.w = "null" THEN JNull ELSE JBool(tok.w = "true"),
            rest |-> Tail(text)]
      [] tok.t = "num" -> [value |-> parse_number(tok.text), rest |-> Tail(text)]
      [] tok.t = "str" -> [value |-> JString(unescape(tok.text)), rest |-> Tail(text)]
      [] tok.c = "[" -> parse_items(Tail(text), <<>>)
      [] OTHER -> parse_members(Tail(text), <<>>)

\* The items up to the closing bracket, pushed onto the array.
parse_items(text, arr) ==
    LET tok == Head(text) IN
    IF tok.t = "punct" /\ tok.c = "]"
    THEN [value |-> JArray(arr), rest |-> Tail(text)]
    ELSE IF tok.t = "punct" /\ tok.c = ","
    THEN parse_items(Tail(text), arr)
    ELSE LET item == parse_value(text)
         IN parse_items(item.rest, Append(arr, item.value))

\* The members up to the closing brace, inserted into the map.
parse_members(text, map) ==
    LET tok == Head(text) IN
    IF tok.t = "punct" /\ tok.c = "}"
    THEN [value |-> JObject(map), rest |-> Tail(text)]
    ELSE IF tok.t = "punct" /\ tok.c = ","
    THEN parse_members(Tail(text), map)
    ELSE LET member == parse_value(Tail(Tail(text)))
         IN parse_members(member.rest, Insert(map, unescape(tok.text), member.value))

\* serde_json::from_str(&info_json)
from_str(text) == parse_value(text).value

(* ----------------------------- cache.rs ------------------------------- *)

\* INSERT INTO cache .. ON CONFLICT(file_path) DO UPDATE SET ..: the row of
\* the path is replaced, or added.
upsert(table, row) ==
    {r \in table : r.file_path # row.file_path} \cup {row}

\* A REAL value bound to a NOT NULL column: SQLite stores NaN as NULL, which
\* the constraint refuses.
binds_real(f) == f.cls # "nan"

\* set_cached_entry(db_path, file_path, file_hash, file_info, size, mtime, _):
\* Ok with the table after the statement, or the error of the statement.
set_cached_entry(table, file_path, file_hash, file_info, size, mtime) ==
    IF binds_real(mtime)
    THEN [ok |-> TRUE,
          table |-> upsert(table, [file_path |-> file_path, file_hash |-> file_hash,
                                   file_info |-> to_string(file_info), size |-> size,
                                   mtime |-> mtime])]
    ELSE [ok |-> FALSE]

\* Option<String> as JSON: null or the string.
hash_to_json(file_hash) == IF file_hash.some THEN JString(file_hash.str) ELSE JNull

\* json!(mtime): Value::from(f64), null for an f64 that is not finite.
f64_to_json(f) == LET number == from_f64(f) IN IF number.some THEN number.number ELSE JNull

\* get_cached_entry(db_path, file_path): None, or the entry of the path's row
\* with file_info parsed.
get_cached_entry(table, file_path) ==
    LET found == {r \in table : r.file_path = file_path}
    IN IF found = {} THEN [some |-> FALSE]
       ELSE LET row == CHOOSE r \in found : TRUE
            IN [some |-> TRUE,
                entry |-> JObject([file_hash |-> hash_to_json(row.file_hash),
                                   file_info |-> from_str(row.file_info),
                                   size |-> JNumber(row.size),
                                   mtime |-> f64_to_json(row.mtime)])]

(* ------------------------------ lib.rs -------------------------------- *)

\* cache_set_entry(db_path, file_path, file_hash, file_info, size, mtime):
\* the info converted by py_to_value, then set_cached_entry; an error of
\* either is raised.
cache_set_entry(table, file_path, file_hash, file_info, size, mtime) ==
    LET info == py_to_value(file_info)
    IN IF info.ok
       THEN set_cached_entry(table, file_path, file_hash, info.value, size, mtime)
       ELSE [ok |-> FALSE]

\* cache_get_entry(db_path, file_path): None, or the entry as a Python object.
cache_get_entry(table, file_path) ==
    LET result == get_cached_entry(table, file_path)
    IN IF result.some THEN [some |-> TRUE, entry |-> value_to_py(result.entry)]
       ELSE [some |-> FALSE]

(* ----------------------------- actions -------------------------------- *)

\* The host calls cache_set_entry. A call that raises changes nothing.
CacheSet(file_path, file_hash, file_info, size, mtime) ==
    /\ nsets < MaxCacheSets
    /\ LET r == cache_set_entry(rows, file_path, file_hash, file_info, size, mtime)
       IN IF r.ok
          THEN /\ rows' = r.table
               /\ lastSet' = [lastSet EXCEPT ![file_path] =
                                 [some |-> TRUE, file_hash |-> file_hash,
                                  file_info |-> file_info, size |-> size, mtime |-> mtime]]
               /\ cout' = [path |-> "none", raised |-> FALSE]
          ELSE /\ cout' = [path |-> "none", raised |-> TRUE]
               /\ UNCHANGED <<rows, lastSet>>
    /\ nsets' = nsets + 1
    /\ UNCHANGED <<pipeVars, lockVars, fileVars, treeVars, mimeVars>>

\* The host calls cache_get_entry.
CacheGet(file_path) ==
    /\ cout' = [path |-> file_path, value |-> cache_get_entry(rows, file_path)]
    /\ UNCHANGED <<pipeVars, lockVars, fileVars, treeVars, mimeVars, rows, lastSet, nsets>>

CacheInit ==
    /\ PipeIdle
    /\ LockIdle
    /\ MimeIdle
    /\ FileIdle
    /\ TreeIdle
    /\ rows = {}
    /\ lastSet = [p \in CachePaths |-> [some |-> FALSE]]
    /\ nsets = 0
    /\ cout = [path |-> "none", raised |-> FALSE]

CacheNext ==
    \/ \E file_path \in CachePaths, file_hash \in CacheHashes, file_info \in CacheInfos,
          size \in 0..MaxCacheStamp, mtime \in CacheMtimes :
          CacheSet(file_path, file_hash, file_info, size, mtime)
    \/ \E file_path \in CachePaths : CacheGet(file_path)

CacheSpec == CacheInit /\ [][CacheNext]_vars

(* ========================== the classifier ============================ *)

(* ---------------------------- bounds ---------------------------------- *)

\* Largest number of bytes of a file that is classified.
MaxSampleLen == 4

(* ------------------------ program constants --------------------------- *)

\* const SAFE_CONTROL: [u8; 4] = [9, 10, 12, 13]
SAFE_CONTROL == {9, 10, 12, 13}

\* const TEXTUAL_MIME_PREFIXES
TEXTUAL_MIME_PREFIXES ==
    {"text/", "application/json", "application/xml", "application/javascript",
     "application/x-javascript", "application/x-sh"}

\* const TEXTUAL_MIME_TYPES
TEXTUAL_MIME_TYPES == {"application/x-empty", "inode/x-empty"}

\* static TEXTUAL_EXTENSIONS
TEXTUAL_EXTENSIONS ==
    {".c", ".cc", ".cfg", ".cmake", ".conf", ".cpp", ".cs", ".css", ".csv",
     ".dart", ".env", ".go", ".gradle", ".h", ".hpp", ".html", ".ini",
     ".java", ".js", ".json", ".jsx", ".kt", ".less", ".lock", ".lua", ".m",
     ".md", ".php", ".pl", ".properties", ".ps1", ".py", ".pyi", ".r", ".rb",
     ".rs", ".rst", ".sass", ".scala", ".scss", ".sh", ".sql", ".swift",
     ".toml", ".ts", ".tsx", ".txt", ".vue", ".yaml", ".yml"}

\* static BINARY_EXTENSIONS
BINARY_EXTENSIONS ==
    {".7z", ".apng", ".avi", ".bmp", ".class", ".dll", ".dylib", ".exe",
     ".gif", ".gz", ".ico", ".iso", ".jar", ".jpeg", ".jpg", ".lz", ".mkv",
     ".mov", ".mp3", ".mp4", ".ogg", ".otf", ".pdf", ".png", ".psd", ".pyd",
     ".rar", ".so", ".svgz", ".tar", ".tgz", ".ttf", ".wav", ".webm",
     ".webp", ".woff", ".woff2", ".xz", ".zip"}

(* ------------------------------ inputs -------------------------------- *)

\* The bytes of the files: NUL, a control byte, the letters C, W and S, and
\* a byte above 126.
Bytes == {0, 7, 67, 87, 83, 200}

\* The byte sequences of length 0..n.
RECURSIVE SamplesUpTo(_)
SamplesUpTo(n) ==
    IF n = 0 THEN {<<>>}
    ELSE LET shorter == SamplesUpTo(n - 1)
         IN shorter \cup {Append(s, b) : s \in {x \in shorter : Len(x) = n - 1}, b \in Bytes}

\* The extension of the path, lowercased and with its dot ("" for none): a
\* textual one, a binary one, three that are in neither set and one that no
\* table knows.
ClassifyExts == {"", ".txt", ".png", ".swf", ".dtd", ".bin", ".zzz"}

\* What libmagic answers for the sample; "none" in a build without the
\* libmagic feature, or when the cookie cannot be opened or loaded.
MagicAnswers(sample) ==
    IF sample = <<>> THEN {"none", "application/x-empty"}
    ELSE {"none", "application/octet-stream", "text/plain"}

\* The files the classifier is applied to: [ext, sample, magic].
ClassifyFiles ==
    {[ext |-> e, sample |-> s, magic |-> m] :
        e \in ClassifyExts, s \in SamplesUpTo(MaxSampleLen),
        m \in {"none", "application/octet-stream", "text/plain", "application/x-empty"}}

(* ------------------------- the MIME libraries -------------------------- *)

\* Option<bool>
Some(result) == [some |-> TRUE, result |-> result]

None == [some |-> FALSE]

\* infer::get(sample): the MIME type of the first matcher of the crate that
\* the sample satisfies. Of its signatures a sample over Bytes can have that
\* of a Flash file, which starts with CWS.
infer_get(sample) ==
    IF Len(sample) > 2 /\ sample[1] = 67 /\ sample[2] = 87 /\ sample[3] = 83
    THEN "application/x-shockwave-flash"
    ELSE "none"

\* MimeGuess::from_path(path).first_raw(): the first MIME type the crate's
\* table lists for the extension.
mime_guess(ext) ==
    CASE ext = ".txt" -> "text/plain"
      [] ext = ".png" -> "image/png"
      [] ext = ".swf" -> "application/x-shockwave-flash"
      [] ext = ".dtd" -> "application/xml-dtd"
      [] ext = ".bin" -> "application/octet-stream"
      [] OTHER -> "none"

(* ----------------------------- mime.rs -------------------------------- *)

\* str::starts_with
starts_with(str, prefix) ==
    Len(str) >= Len(prefix) /\ SubSeq(str, 1, Len(prefix)) = prefix

\* classify_by_extension(path): Some(false) for a textual extension,
\* Some(true) for a binary one, None otherwise.
classify_by_extension(f) ==
    IF f.ext = "" THEN None
    ELSE IF f.ext \in TEXTUAL_EXTENSIONS THEN Some(FALSE)
    ELSE IF f.ext \in BINARY_EXTENSIONS THEN Some(TRUE)
    ELSE None

\* mime_implies_text(mime_type)
mime_implies_text(mime_type) ==
    \/ mime_type \in TEXTUAL_MIME_TYPES
    \/ \E prefix \in TEXTUAL_MIME_PREFIXES : starts_with(mime_type, prefix)

\* classify_mime_type(mime_type)
classify_mime_type(mime_type) ==
    IF mime_implies_text(mime_type) THEN Some(FALSE)
    ELSE IF mime_type = "application/octet-stream" THEN None
    ELSE Some(TRUE)

\* A library's answer classified: None when the library has none.
classify_answer(mime_type) ==
    IF mime_type = "none" THEN None ELSE classify_mime_type(mime_type)

\* detect_with_infer(sample)
detect_with_infer(sample) == classify_answer(infer_get(sample))

\* detect_with_mime_guess(path)
detect_with_mime_guess(f) == classify_answer(mime_guess(f.ext))

\* magic_detect(sample)
magic_detect(f) == classify_answer(f.magic)

\* The number of bytes of the sample that satisfy the test.
count_bytes(sample, Test(_)) ==
    Cardinality({i \in 1..Len(sample) : Test(sample[i])})

is_nul(byte) == byte = 0

is_control(byte) == byte < 32 /\ byte \notin SAFE_CONTROL

is_printable(byte) == (32 <= byte /\ byte <= 126) \/ byte \in SAFE_CONTROL

\* printable_ratio(sample): the three counts and the total; the ratios of the
\* code are these counts over the total, and (1, 0, 0) for an empty sample,
\* given here as printable = total = 1.
printable_ratio(sample) ==
    IF sample = <<>> THEN [printable |-> 1, control |-> 0, nul |-> 0, total |-> 1]
    ELSE [printable |-> count_bytes(sample, is_printable),
          control |-> count_bytes(sample, is_control),
          nul |-> count_bytes(sample, is_nul),
          total |-> Len(sample)]

\* analyse_sample(sample): the comparisons of the ratios, multiplied out.
analyse_sample(sample) ==
    LET r == printable_ratio(sample)
        two_nuls == \E i \in 1..(Len(sample) - 1) : sample[i] = 0 /\ sample[i + 1] = 0
    IN IF r.nul > 0 /\ (r.nul * 1000 >= r.total \/ two_nuls) THEN Some(TRUE)
       ELSE IF r.control * 10 > r.total /\ r.printable * 10 < 9 * r.total THEN Some(TRUE)
       ELSE IF r.printable * 100 >= 95 * r.total /\ r.control * 100 <= 2 * r.total
       THEN Some(FALSE)
       ELSE IF r.printable * 10 <= 6 * r.total THEN Some(TRUE)
       ELSE None

\* The steps of classify_uncached after the sample is read, in their order.
classify_sample(f) ==
    IF analyse_sample(f.sample).some THEN analyse_sample(f.sample).result
    ELSE IF detect_with_infer(f.sample).some THEN detect_with_infer(f.sample).result
    ELSE IF detect_with_mime_guess(f).some THEN detect_with_mime_guess(f).result
    ELSE IF magic_detect(f).some THEN magic_detect(f).result
    ELSE FALSE

\* classify_uncached(path): by the extension without reading, otherwise
\* read_file_sample (which may fail) and the steps on the sample.
classify_uncached(f, read_ok) ==
    IF classify_by_extension(f).some
    THEN [ok |-> TRUE, result |-> classify_by_extension(f).result, read |-> FALSE]
    ELSE IF ~read_ok
    THEN [ok |-> FALSE, result |-> FALSE, read |-> TRUE]
    ELSE [ok |-> TRUE, result |-> classify_sample(f), read |-> TRUE]

\* The MIME types the libraries report for the file.
ReportedTypes(f) == {infer_get(f.sample), mime_guess(f.ext), f.magic} \ {"none"}

(* ----------------------------- actions -------------------------------- *)

\* classify_uncached is applied to the file.
ClassifyUncached(read_ok) ==
    /\ pout.fn = "none"
    /\ pout' = [fn |-> "classify_uncached", value |-> classify_uncached(pfile, read_ok)]
    /\ UNCHANGED <<pipeVars, lockVars, treeVars, cacheVars, mimeVars, pfile, popts>>

\* classify_mime_type is applied to a MIME type a library reports for the
\* file.
ClassifyMimeType(mime_type) ==
    /\ pout.fn = "none"
    /\ mime_type \in ReportedTypes(pfile)
    /\ pout' = [fn |-> "classify_mime_type", mime_type |-> mime_type,
                value |-> classify_mime_type(mime_type)]
    /\ UNCHANGED <<pipeVars, lockVars, treeVars, cacheVars, mimeVars, pfile, popts>>

ClassifyInit ==
    /\ PipeIdle
    /\ LockIdle
    /\ TreeIdle
    /\ CacheIdle
    /\ MimeIdle
    /\ pfile \in {f \in ClassifyFiles : f.magic \in MagicAnswers(f.sample)}
    /\ popts = "none"
    /\ pout = [fn |-> "none"]

ClassifyNext ==
    \/ \E read_ok \in BOOLEAN : ClassifyUncached(read_ok)
    \/ \E mime_type \in UNION {ReportedTypes(f) : f \in ClassifyFiles} :
          ClassifyMimeType(mime_type)

ClassifySpec == ClassifyInit /\ [][ClassifyNext]_vars

(* ===================== the classifier's stat cache ==================== *)

(* ---------------------------- bounds ---------------------------------- *)

\* Largest number of calls of is_binary on the path.
MaxCalls == 2

\* Largest number of changes of the (size, mtime) of the path.
MaxTouches == 1

(* ----------------------------- mime.rs -------------------------------- *)

\* LruCache::new(NonZeroUsize::new(4096).unwrap())
MimeCacheCapacity == 4096

\* The contents of the file at the path: one that analyse_sample finds
\* textual and one it finds binary.
MimeSamples == {<<67>>, <<0>>}

\* The files: with an extension of BINARY_EXTENSIONS or with none.
MimeFiles == [ext : {"", ".png"}, sample : MimeSamples, magic : {"none"}, stamp : {0}]

\* Mutant of cache_get: the lookup ignores the stored entry.
cache_get_miss(cache, stamp) == [some |-> FALSE]

\* cache.get(&(key, size, mtime_ns))
cache_get(cache, stamp) ==
    IF cache.present /\ cache.stamp = stamp
    THEN [some |-> TRUE, result |-> cache.value]
    ELSE [some |-> FALSE]

\* LruCache: the use of a key, here the path's own, makes it the most
\* recently used.
promoted(cache) == [cache EXCEPT !.newer = 0]

\* LruCache: another key is put, or promoted from behind the path's entry.
\* The path's entry is the least recently used one of a full cache when
\* capacity - 1 other keys are newer, and the next put evicts it.
other_key_used(cache) ==
    IF ~cache.present THEN cache
    ELSE IF cache.newer + 1 >= MimeCacheCapacity
    THEN [cache EXCEPT !.present = FALSE, !.newer = MimeCacheCapacity]
    ELSE [cache EXCEPT !.newer = cache.newer + 1]

\* cache.put((key, size, mtime_ns), result)
cache_put(cache, stamp, result) ==
    [present |-> TRUE, stamp |-> stamp, value |-> result, newer |-> 0]

\* The entry as the calls on the path can still meet it: an entry whose key
\* has another (size, mtime) than the file, with no call left that made its
\* stat before the change and has its lookup ahead, is found by no later
\* lookup and counts as one of the other keys.
reachable_entry(cache, file_stamp, lookup_ahead) ==
    IF cache.present /\ cache.stamp # file_stamp /\ ~lookup_ahead
    THEN [cache EXCEPT !.present = FALSE, !.newer = 0]
    ELSE cache

\* How many other keys are newer than the path's entry: none, some, all
\* the others of a full cache, or so many that the entry was evicted.
others_newer(cache) ==
    IF cache.newer = 0 THEN "none"
    ELSE IF cache.newer < MimeCacheCapacity - 1 THEN "some"
    ELSE IF cache.newer = MimeCacheCapacity - 1 THEN "most"
    ELSE "capacity"

\* The record of a completed call.
CallRecord(cur, ok, value, read) ==
    [stat |-> cur.stat, stamp |-> cur.stamp, others |-> cur.others,
     ok |-> ok, value |-> value, read |-> read]

\* Of the call before the last one, what a later call can depend on: whether
\* it returned a value for a key, the key, the value and whether it read.
Earlier(record) ==
    LET keyed == record.stat /\ record.ok
    IN [stat |-> keyed, stamp |-> record.stamp, others |-> "none", ok |-> keyed,
        value |-> keyed /\ record.value, read |-> record.read]

\* The last two completed calls after one more.
Returned(calls, record) ==
    IF calls = <<>> THEN <<record>> ELSE <<Earlier(calls[Len(calls)]), record>>

\* No call in progress.
NoCall == [stat |-> FALSE, stamp |-> 0, others |-> "none", result |-> FALSE]

(* ----------------------------- actions -------------------------------- *)

\* is_binary(path) up to compute_stat_key(path): the stat of the file, made
\* without the lock, gives the (size, mtime_ns) of the key.
IsBinaryStat(stat_ok) ==
    /\ mpc = "idle"
    /\ ncalls < MaxCalls
    /\ ncalls' = ncalls + 1
    /\ mpc' = (IF stat_ok THEN "get" ELSE "uncached")
    /\ mcur' = [stat |-> stat_ok, stamp |-> mfile.stamp, others |-> "none",
                result |-> FALSE]
    /\ UNCHANGED <<pipeVars, lockVars, fileVars, treeVars, cacheVars, mfile, mcache,
                   mcalls>>

\* MIME_CACHE.lock() and cache.get with the key computed before: a hit
\* returns the cached value, a miss drops the guard.
IsBinaryGet ==
    /\ mpc = "get"
    /\ LET cur == [mcur EXCEPT !.others = IF mcache.stamp = mcur.stamp
                                          THEN others_newer(mcache) ELSE "none"]
           hit == cache_get(mcache, mcur.stamp)
       IN IF hit.some
          THEN /\ mcache' = reachable_entry(promoted(mcache), mfile.stamp, FALSE)
               /\ mcalls' = Returned(mcalls, CallRecord(cur, TRUE, hit.result, FALSE))
               /\ mpc' = "idle"
               /\ mcur' = NoCall
          ELSE /\ mpc' = "classify"
               /\ mcur' = cur
               /\ UNCHANGED <<mcache, mcalls>>
    /\ UNCHANGED <<pipeVars, lockVars, fileVars, treeVars, cacheVars, mfile, ncalls>>

\* classify_uncached(path), outside the lock; an error returns, and so does
\* the call that could not stat the file.
Classify(read_ok) ==
    /\ mpc \in {"classify", "uncached"}
    /\ LET r == classify_uncached(mfile, read_ok)
       IN IF ~r.ok \/ mpc = "uncached"
          THEN /\ mcalls' = Returned(mcalls, CallRecord(mcur, r.ok, r.result, r.read))
               /\ mpc' = "idle"
               /\ mcur' = NoCall
          ELSE /\ mpc' = IF r.read THEN "put_read" ELSE "put"
               /\ mcur' = [mcur EXCEPT !.result = r.result]
               /\ UNCHANGED mcalls
    /\ UNCHANGED <<pipeVars, lockVars, fileVars, treeVars, cacheVars, mfile, mcache, ncalls>>

\* cache.put under the lock, with the key computed at the start of the call,
\* and the return of the result.
CachePut ==
    /\ mpc \in {"put", "put_read"}
    /\ mcache' = reachable_entry(cache_put(mcache, mcur.stamp, mcur.result),
                                 mfile.stamp, FALSE)
    /\ mcalls' = Returned(mcalls, CallRecord(mcur, TRUE, mcur.result, mpc = "put_read"))
    /\ mpc' = "idle"
    /\ mcur' = NoCall
    /\ UNCHANGED <<pipeVars, lockVars, fileVars, treeVars, cacheVars, mfile, ncalls>>

\* A call of is_binary on another path, concurrent or not, puts its key or
\* promotes it.
OtherCall ==
    /\ ncalls < MaxCalls \/ mpc # "idle"
    /\ mcache.present
    /\ mcache' = other_key_used(mcache)
    /\ UNCHANGED <<pipeVars, lockVars, fileVars, treeVars, cacheVars, mfile, mpc, mcur, mcalls, ncalls>>

\* The file is rewritten: its (size, mtime) change. The cache keeps what it
\* holds, under the key of the old (size, mtime), which only a call that
\* has made its stat already can still look up.
Touch(sample) ==
    /\ ncalls < MaxCalls \/ mpc # "idle"
    /\ mfile.stamp < MaxTouches
    /\ mfile' = [mfile EXCEPT !.stamp = mfile.stamp + 1, !.sample = sample]
    /\ mcache' = reachable_entry(mcache, mfile.stamp + 1, mpc = "get")
    /\ UNCHANGED <<pipeVars, lockVars, fileVars, treeVars, cacheVars, mpc, mcur, mcalls,
                   ncalls>>

\* The content of the file changes while its size and mtime stay.
Tamper ==
    /\ ncalls < MaxCalls \/ mpc # "idle"
    /\ \E sample \in MimeSamples \ {mfile.sample} :
          mfile' = [mfile EXCEPT !.sample = sample]
    /\ UNCHANGED <<pipeVars, lockVars, fileVars, treeVars, cacheVars, mcache, mpc, mcur, mcalls,
                   ncalls>>

MimeInit ==
    /\ PipeIdle
    /\ LockIdle
    /\ FileIdle
    /\ TreeIdle
    /\ CacheIdle
    /\ mfile \in MimeFiles
    /\ mcache = [present |-> FALSE, stamp |-> 0, value |-> FALSE, newer |-> 0]
    /\ mpc = "idle"
    /\ mcur = NoCall
    /\ mcalls = <<>>
    /\ ncalls = 0

MimeNext ==
    \/ \E stat_ok \in BOOLEAN : IsBinaryStat(stat_ok)
    \/ IsBinaryGet
    \/ \E read_ok \in BOOLEAN : Classify(read_ok)
    \/ CachePut
    \/ OtherCall
    \/ \E sample \in MimeSamples : Touch(sample)
    \/ Tamper

MimeSpec == MimeInit /\ [][MimeNext]_vars

(* ====================== content.rs: detect_encoding =================== *)

\* Largest length of the sample detect_encoding is applied to.
MaxEncSampleLen == 3

\* The bytes of the samples: 'A', the two bytes of U+00E9 in UTF-8, the
\* three bytes of the UTF-8 byte order mark, and the two of the UTF-16 marks.
EncBytes == {65, 195, 169, 239, 187, 191, 255, 254}

\* The byte sequences of length 0..n.
RECURSIVE EncSamplesUpTo(_)
EncSamplesUpTo(n) ==
    IF n = 0 THEN {<<>>}
    ELSE LET shorter == EncSamplesUpTo(n - 1)
         IN shorter \cup {Append(s, b) : s \in {x \in shorter : Len(x) = n - 1},
                                          b \in EncBytes}

\* The labels a caller passes: labels of the Encoding Standard, in the
\* spellings Encoding::for_label accepts (case-insensitive, surrounding
\* white space ignored), and labels it does not know.
EncLabels ==
    {"utf-8", "UTF-8", " utf8 ", "latin1", "windows-1252", "utf-16le", "utf-16",
     "utf-16be", "utf-32", "bogus", ""}

\* provided: Option<&str>
Provided ==
    {[some |-> FALSE, label |-> ""]} \cup {[some |-> TRUE, label |-> l] : l \in EncLabels}

\* Encoding::for_label(label): the encoding of a label, "none" for None.
for_label(label) ==
    CASE label \in {"utf-8", "UTF-8", " utf8 "} -> "UTF_8"
      [] label \in {"latin1", "windows-1252"} -> "WINDOWS_1252"
      [] label \in {"utf-16le", "utf-16"} -> "UTF_16LE"
      [] label = "utf-16be" -> "UTF_16BE"
      [] OTHER -> "none"

\* Encoding::name()
encoding_name(enc) ==
    CASE enc = "UTF_8" -> "UTF-8"
      [] enc = "WINDOWS_1252" -> "windows-1252"
      [] enc = "UTF_16LE" -> "UTF-16LE"
      [] enc = "UTF_16BE" -> "UTF-16BE"

\* buffer.starts_with(prefix)
bytes_start_with(buffer, prefix) ==
    Len(buffer) >= Len(prefix) /\ SubSeq(buffer, 1, Len(prefix)) = prefix

\* Encoding::for_bom(sample): the encoding of the byte order mark the sample
\* starts with, "none" for None.
for_bom(sample) ==
    IF bytes_start_with(sample, <<239, 187, 191>>) THEN "UTF_8"
    ELSE IF bytes_start_with(sample, <<255, 254>>) THEN "UTF_16LE"
    ELSE IF bytes_start_with(sample, <<254, 255>>) THEN "UTF_16BE"
    ELSE "none"

\* The length of the UTF-8 sequence a byte starts, 0 for a byte that starts
\* none.
utf8_width(b) ==
    IF b < 128 THEN 1
    ELSE IF b \in 194..223 THEN 2
    ELSE IF b \in 224..239 THEN 3
    ELSE IF b \in 240..244 THEN 4
    ELSE 0

\* The second bytes a first byte admits.
utf8_second(b) ==
    CASE b = 224 -> 160..191
      [] b = 237 -> 128..159
      [] b = 240 -> 144..191
      [] b = 244 -> 128..143
      [] OTHER -> 128..191

\* std::str::from_utf8(sample).is_ok()
RECURSIVE from_utf8_is_ok(_)
from_utf8_is_ok(sample) ==
    IF sample = <<>> THEN TRUE
    ELSE LET w == utf8_width(sample[1])
         IN /\ w # 0
            /\ Len(sample) >= w
            /\ w >= 2 => sample[2] \in utf8_second(sample[1])
            /\ \A k \in 3..w : sample[k] \in 128..191
            /\ from_utf8_is_ok(SubSeq(sample, w + 1, Len(sample)))

\* Mutant of detect_encoding: the byte order mark is looked at first.
detect_encoding_bom_first(sample, provided) ==
    IF for_bom(sample) # "none"
    THEN [enc |-> for_bom(sample), name |-> encoding_name(for_bom(sample))]
    ELSE IF provided.some /\ for_label(provided.label) # "none"
    THEN [enc |-> for_label(provided.label),
          name |-> encoding_name(for_label(provided.label))]
    ELSE IF from_utf8_is_ok(sample)
    THEN [enc |-> "UTF_8", name |-> "utf-8"]
    ELSE [enc |-> "WINDOWS_1252", name |-> "windows-1252"]

\* detect_encoding(sample, provided): the encoding and the name reported.
detect_encoding(sample, provided) ==
    IF provided.some /\ for_label(provided.label) # "none"
    THEN [enc |-> for_label(provided.label),
          name |-> encoding_name(for_label(provided.label))]
    ELSE IF for_bom(sample) # "none"
    THEN [enc |-> for_bom(sample), name |-> encoding_name(for_bom(sample))]
    ELSE IF from_utf8_is_ok(sample)
    THEN [enc |-> "UTF_8", name |-> "utf-8"]
    ELSE [enc |-> "WINDOWS_1252", name |-> "windows-1252"]

\* read_text_preview applies detect_encoding to the sample and the caller's
\* label.
DetectEncoding ==
    /\ pout.fn = "none"
    /\ pout' = [fn |-> "detect_encoding",
                value |-> detect_encoding(pfile.sample, pfile.provided)]
    /\ UNCHANGED <<pipeVars, lockVars, treeVars, cacheVars, mimeVars, pfile, popts>>

DetectInit ==
    /\ PipeIdle
    /\ LockIdle
    /\ TreeIdle
    /\ CacheIdle
    /\ MimeIdle
    /\ pfile \in [sample : EncSamplesUpTo(MaxEncSampleLen), provided : Provided]
    /\ popts = "none"
    /\ pout = [fn |-> "none"]

DetectNext == DetectEncoding

DetectSpec == DetectInit /\ [][DetectNext]_vars

(* -------------- read_text_preview: the detection sample --------------- *)

\* const ENCODING_SAMPLE_BYTES: usize = 512 * 1024
ENCODING_SAMPLE_BYTES == 524288

\* The text files: a run of `pad` bytes 'A' followed by the bytes of `tail`.
\* The runs end next to the end of the detection sample, or are absent.
SamplePads ==
    {0, ENCODING_SAMPLE_BYTES - 2, ENCODING_SAMPLE_BYTES - 1, ENCODING_SAMPLE_BYTES,
     ENCODING_SAMPLE_BYTES + 1}

TextFiles ==
    [pad : SamplePads, tail : EncSamplesUpTo(MaxEncSampleLen), provided : Provided]

\* file.by_ref().take(ENCODING_SAMPLE_BYTES).read_to_end(&mut sample): the
\* first ENCODING_SAMPLE_BYTES bytes of the file, or all of a shorter file.
read_sample(f) ==
    LET run == Min(f.pad, ENCODING_SAMPLE_BYTES)
        rest == Min(Len(f.tail), ENCODING_SAMPLE_BYTES - run)
    IN [pad |-> run, tail |-> SubSeq(f.tail, 1, rest)]

\* A byte sequence that detect_encoding answers for as for the run and the
\* tail: a run of 'A' starts with no byte order mark and is valid UTF-8 of
\* one-byte characters whatever its length, so one 'A' stands for it.
run_bytes(r) == (IF r.pad > 0 THEN <<65>> ELSE <<>>) \o r.tail

\* read_text_preview up to the encoding it reports: detect_encoding on the
\* sample and the caller's label.
reported_encoding(f) == detect_encoding(run_bytes(read_sample(f)), f.provided).name

\* read_text_preview reads the sample of the file and detects its encoding.
SampleEncoding ==
    /\ pout.fn = "none"
    /\ pout' = [fn |-> "read_text_preview", encoding |-> reported_encoding(pfile)]
    /\ UNCHANGED <<pipeVars, lockVars, treeVars, cacheVars, mimeVars, pfile, popts>>

SampleInit ==
    /\ PipeIdle
    /\ LockIdle
    /\ TreeIdle
    /\ CacheIdle
    /\ MimeIdle
    /\ pfile \in TextFiles
    /\ popts = "none"
    /\ pout = [fn |-> "none"]

SampleNext == SampleEncoding

SampleSpec == SampleInit /\ [][SampleNext]_vars

(* ================= is_binary: the mutex of MIME_CACHE ================= *)

\* Largest number of threads that call is_binary concurrently.
MaxLockThreads == 2

\* The paths the threads classify.
LockPaths == {"a", "b"}

\* Mutant of drop_guard: drop(cache) is missing and the guard lives on.
keep_guard(holder) == holder

\* drop(cache) after a miss: the mutex is released.
drop_guard(holder) == 0

\* A thread calls is_binary(path) and starts compute_stat_key.
LockCall(t, path) ==
    /\ lpc[t] = "idle"
    /\ lpc' = [lpc EXCEPT ![t] = "stat"]
    /\ lpath' = [lpath EXCEPT ![t] = path]
    /\ UNCHANGED <<pipeVars, fileVars, treeVars, cacheVars, mimeVars, lholder, lcache>>

\* compute_stat_key(path) returns: Some leads to MIME_CACHE.lock(), None to
\* the else branch.
LockStat(t, stat_ok) ==
    /\ lpc[t] = "stat"
    /\ lpc' = [lpc EXCEPT ![t] = IF stat_ok THEN "lock_get" ELSE "uncached"]
    /\ UNCHANGED <<pipeVars, fileVars, treeVars, cacheVars, mimeVars, lpath, lholder, lcache>>

\* MIME_CACHE.lock() returns the guard: the mutex was free.
LockAcquire(t) ==
    /\ lpc[t] \in {"lock_get", "lock_put"}
    /\ lholder = 0
    /\ lholder' = t
    /\ lpc' = [lpc EXCEPT ![t] = IF lpc[t] = "lock_get" THEN "get" ELSE "put"]
    /\ UNCHANGED <<pipeVars, fileVars, treeVars, cacheVars, mimeVars, lpath, lcache>>

\* cache.get(..): a hit returns the value and the guard goes out of scope; a
\* miss goes on to drop(cache).
LockGet(t) ==
    /\ lpc[t] = "get"
    /\ IF lpath[t] \in lcache
       THEN /\ lpc' = [lpc EXCEPT ![t] = "idle"]
            /\ lholder' = 0
       ELSE /\ lpc' = [lpc EXCEPT ![t] = "drop"]
            /\ UNCHANGED lholder
    /\ UNCHANGED <<pipeVars, fileVars, treeVars, cacheVars, mimeVars, lpath, lcache>>

\* drop(cache), then classify_uncached(path) starts to read the file.
LockDrop(t) ==
    /\ lpc[t] = "drop"
    /\ lholder' = drop_guard(lholder)
    /\ lpc' = [lpc EXCEPT ![t] = "classify"]
    /\ UNCHANGED <<pipeVars, fileVars, treeVars, cacheVars, mimeVars, lpath, lcache>>

\* classify_uncached(path) returns: its error returns from is_binary (`?`),
\* and so does its value in the else branch; after a miss its value goes to
\* the second MIME_CACHE.lock().
LockClassify(t, read_ok) ==
    /\ lpc[t] \in {"classify", "uncached"}
    /\ lpc' = [lpc EXCEPT ![t] = IF read_ok /\ lpc[t] = "classify"
                                 THEN "lock_put" ELSE "idle"]
    /\ UNCHANGED <<pipeVars, fileVars, treeVars, cacheVars, mimeVars, lpath, lholder, lcache>>

\* cache.put(..) and the return: the guard goes out of scope.
LockPut(t) ==
    /\ lpc[t] = "put"
    /\ lcache' = lcache \cup {lpath[t]}
    /\ lholder' = 0
    /\ lpc' = [lpc EXCEPT ![t] = "idle"]
    /\ UNCHANGED <<pipeVars, fileVars, treeVars, cacheVars, mimeVars, lpath>>

LockInit ==
    /\ PipeIdle
    /\ FileIdle
    /\ TreeIdle
    /\ CacheIdle
    /\ MimeIdle
    /\ \E n \in 1..MaxLockThreads :
          /\ lpc = [t \in 1..n |-> "idle"]
          /\ lpath \in [1..n -> LockPaths]
    /\ lholder = 0
    /\ lcache \in SUBSET LockPaths

LockNext ==
    \E t \in DOMAIN lpc :
        \/ \E path \in LockPaths : LockCall(t, path)
        \/ \E stat_ok \in BOOLEAN : LockStat(t, stat_ok)
        \/ LockAcquire(t)
        \/ LockGet(t)
        \/ LockDrop(t)
        \/ \E read_ok \in BOOLEAN : LockClassify(t, read_ok)
        \/ LockPut(t)

LockSpec == LockInit /\ [][LockNext]_vars

(* ------------------------------ claims -------------------------------- *)

\* The consumer has pulled to end-of-stream.
Eos == lastPull = "eos"

\* Every Summary sent so far: received, or still in the channel.
SentSummaries ==
    Range(summaries) \cup
    {batchCh[i].summary : i \in {j \in 1..Len(batchCh) : batchCh[j].type = "Summary"}}

\* An Error message is in the channel.
ErrorInFlight == \E i \in 1..Len(batchCh) : batchCh[i].type = "Error"

\* The worklist in walker order: the submission indices 0..n-1.
Worklist == [i \in 1..included |-> i - 1]

\* A thread of the traversal waits for the interpreter lock to poll the
\* token while the consumer holds the lock inside recv().
PollStuck ==
    /\ cpc = "recv"
    /\ token # "none"
    /\ \/ tpc = "gather" /\ unwalked > 0 /\ ~nextErr
       \/ \E t \in tasks : t.st = "poll"


\* C1: the records the consumer receives, batches concatenated in arrival
\* order, have strictly increasing submission indices, whatever the order in
\* which the workers complete, also when cancellation leaves gaps and the
\* aggregator flushes its pending map at the end.
C1_StrictlyIncreasing ==
    \A i \in 1..(Len(log) - 1) : log[i].index < log[i + 1].index

\* C1 witness: a cancelled run delivered two records with a gap between them
\* (the later ones came out of the final flush).
C1_Witness ==
    /\ flag
    /\ \E i \in 1..(Len(log) - 1) : log[i + 1].index > log[i].index + 1

\* The premises of C2: the consumer pulled to end-of-stream, the token was
\* never cancelled and no poll of it failed.
C2_Premises ==
    /\ Eos
    /\ token \in {"none", "false"}

\* What C2 promises: the batches concatenated are the worklist in walker
\* order, and the one Summary reports processed_files = included_files.
C2_Delivered ==
    /\ Indices(log) = Worklist
    /\ Len(summaries) = 1
    /\ summaries[1].processed_files = summaries[1].included_files
    /\ summaries[1].included_files = included

\* C2 as stated: in a run where the token is never cancelled, no token poll
\* fails and the consumer pulls until end-of-stream, every worklist file is
\* delivered exactly once, in walker order, and the Summary reports
\* processed_files = included_files.
C2_AsStated == C2_Premises => C2_Delivered

\* The Summary messages in the batch channel.
SummariesInFlight == {i \in 1..Len(batchCh) : batchCh[i].type = "Summary"}

\* C3: the Summary is terminal: at most one Summary is emitted per run, no
\* Entries batch is sent after it, and once the consumer has received it no
\* Entries batch is left to receive and every further pull yields
\* end-of-stream (no Entries batch, no second Summary, no error).
C3_SummaryTerminal ==
    /\ Len(summaries) + Cardinality(SummariesInFlight) <= 1
    /\ \A i \in SummariesInFlight :
          \A j \in (i + 1)..Len(batchCh) : batchCh[j].type # "Entries"
    /\ summaries # <<>> =>
          /\ lastPull \in {"summary", "eos"}
          /\ \A i \in 1..Len(batchCh) : batchCh[i].type # "Entries"

\* C3 witness: batches, then the Summary, then a pull that gave end-of-stream,
\* in a run whose thread ended with an error after the Summary.
C3_Witness ==
    /\ summaries # <<>>
    /\ nbatches >= 1
    /\ Eos
    /\ tresult = "Other"

\* C4: with the token cancelled before the run starts the consumer receives
\* no Entries batch, and the Summary it receives has stopped_early = true,
\* processed_files = 0 and failed_files = [].
C4_PreCancelled ==
    tokenAtStart = "true" =>
        /\ log = <<>>
        /\ \A s \in Range(summaries) :
              /\ s.stopped_early
              /\ s.processed_files = 0
              /\ s.failed_files = <<>>

\* C5: if the token becomes true after the consumer received the first
\* Entries batch and while a worklist file is not yet picked up, a consumer
\* that keeps pulling eventually receives a Summary with stopped_early = true.
C5_LateCancelSummary ==
    lateCancel ~> (summaries # <<>> /\ \A s \in Range(summaries) : s.stopped_early)

\* C6: cancellation is never reported as an error: in a run in which no token
\* poll failed and the pool and the aggregator's thread were created, no
\* Error message is sent and the iterator never raises, however the run stops.
C6_CancellationNoError ==
    ~failure => (raised = 0 /\ ~ErrorInFlight)

\* C6 witness: a run that a worker stopped on the token, or that stopped on a
\* dropped stream, has ended.
C6_Witness ==
    /\ ~failure
    /\ tpc = "exit"
    /\ "Cancelled" \in errs
    /\ aresult \in {"Ok", "Cancelled"}
    /\ flag

\* C7: the stream is self-terminating: a consumer that keeps pulling never
\* reaches end-of-stream without having received a Summary or an error,
\* and, provided no token poll waits forever, it reaches end-of-stream. (A
\* poll that has raised has returned: the thread that then waits for the
\* interpreter lock to format the exception is not inside a poll.)
C7_SelfTerminating ==
    /\ [](Eos => (summaries # <<>> \/ raised > 0))
    /\ ([]<>(~PollStuck)) => <>Eos

\* C8: a failure that makes the traversal thread end with a non-Cancelled
\* error is seen, by a consumer that pulls to end-of-stream, as an error the
\* iterator raised.
C8_FailureRaised ==
    (Eos /\ tresult = "Other") => raised > 0

\* C9: every Summary satisfies total_files = included_files + excluded_files
\* and processed_files <= total_files + length(failed_files).
C9_SummaryTotals ==
    \A s \in SentSummaries :
        /\ s.total_files = s.included_files + s.excluded_files
        /\ s.processed_files <= s.total_files + Len(s.failed_files)

\* C9 witness: the Summary of a run that the walker counted excluded files
\* in, in which a file failed and which processed every file.
C9_Witness ==
    \E s \in Range(summaries) :
        /\ s.excluded_files > 0
        /\ s.failed_files # <<>>
        /\ s.processed_files = s.included_files

\* C10: every Summary satisfies processed_files = included_files +
\* length(failed_files) + the number of records whose info is `excluded`.
C10_ProcessedDecomposition ==
    \A s \in Range(summaries) :
        s.processed_files = s.included_files + Len(s.failed_files) + seenExcluded

\* C11: whenever a Summary with stopped_early = true is received, the number
\* of records the consumer received in Entries batches before it is at most
\* the Summary's processed_files.
C11_StoppedEarlyBound ==
    \A s \in Range(summaries) :
        s.stopped_early => Len(log) <= s.processed_files

\* C11 witness: a Summary with stopped_early = true was received after at
\* least one record, in a run that left worklist files unprocessed.
C11_Witness ==
    /\ summaries # <<>>
    /\ summaries[1].stopped_early
    /\ log # <<>>
    /\ Len(log) < included

\* The indices of the records received with info.type = "error".
ErrorRecords == {log[i].index : i \in {j \in 1..Len(log) : log[j].info = "error"}}

\* C12: a per-file error never aborts the run: in a run that nothing else
\* stopped (no cancellation, no failed poll, the pool and the aggregator's
\* thread created) and that the
\* consumer pulled to end-of-stream, every worklist file is delivered also
\* after an `error` record, and the Summary's failed_files holds exactly one
\* entry for each record with info.type = "error" and none for another.
C12_PerFileErrors ==
    /\ (C2_Premises /\ ~failure) => Len(log) = included
    /\ \A s \in Range(summaries) :
          /\ Range(s.failed_files) = ErrorRecords
          /\ Len(s.failed_files) = Cardinality(ErrorRecords)

\* C12 witness: a complete run in which the first file gave an `error` record
\* and a later one did not, with one entry in failed_files.
C12_Witness ==
    /\ C2_Premises
    /\ ~failure
    /\ Len(log) >= 2
    /\ log[1].info = "error"
    /\ log[Len(log)].info = "text"
    /\ summaries # <<>>
    /\ Len(summaries[1].failed_files) = 1

\* process_path has been applied to the file.
Processed == pout.fn = "process_path"

\* Nothing but the hasher can fail for the file: its stat, its classification
\* and its content reader succeed and no exclusion applies.
OnlyHasherCanFail ==
    /\ pfile.stat = "ok"
    /\ pfile.size <= popts.max_file_size
    /\ pfile.classify # "err"
    /\ ~((pfile.classify = "binary" \/ pfile.image) /\ ~popts.include_binary)
    /\ pfile.read = "ok"

\* C13: when hashing is enabled and only the hasher fails for a file, the
\* record keeps its text/binary info, carries the error object in its `hash`
\* field, and the aggregator does not add the file to failed_files; when the
\* file is absent at hash time the `hash` field is null.
C13_HashOnlyError ==
    (Processed /\ popts.hashing_enabled /\ OnlyHasherCanFail) =>
        LET rec == pout.value IN
        /\ pfile.hash \in {"denied", "read"} =>
              /\ rec.info.type = (IF pfile.classify = "binary" THEN "binary" ELSE "text")
              /\ rec.hash = [type |-> "error", content |-> "Failed to compute hash"]
              /\ ~is_error_info(rec.info.type)
        /\ pfile.hash = "absent" => rec.hash = JNull

\* C13 witness: a binary file whose hasher failed while reading.
C13_Witness ==
    /\ Processed
    /\ popts.hashing_enabled
    /\ OnlyHasherCanFail
    /\ pfile.hash = "read"
    /\ pfile.classify = "binary"
    /\ pout.value.hash.type = "error"

\* C14: every record has exactly the keys parent, filename, info and stat,
\* plus hash only when hashing is enabled, whatever its info type.
C14_RecordKeys ==
    Processed =>
        DOMAIN pout.value =
            {"parent", "filename", "info", "stat"} \cup
            (IF popts.hashing_enabled THEN {"hash"} ELSE {})

\* C17: a binary file whose size is above the binary preview cap (3 MiB) but
\* not above max_file_size gets the info {excluded, binary_too_large, size},
\* not a binary preview.
C17_LargeBinaryExcluded ==
    (/\ Processed
     /\ pfile.stat = "ok"
     /\ pfile.classify = "binary"
     /\ popts.include_binary
     /\ pfile.read = "ok"
     /\ pfile.size > MAX_BINARY_CONTENT_BYTES
     /\ pfile.size <= popts.max_file_size) =>
        LET info == pout.value.info IN
        /\ info.type = "excluded"
        /\ info.reason = "binary_too_large"
        /\ info.size = pfile.size

\* C19: compute_hash returns None (no error) when the file is absent at open
\* time, and fails with the error kind Hashing for every other I/O failure,
\* at open and while reading.
C19_HashErrors ==
    pout.fn = "compute_hash" =>
        LET r == pout.value IN
        /\ pfile.hash = "absent" => (~r.raised /\ r.value = [some |-> FALSE])
        /\ pfile.hash \in {"denied", "read"} => (r.raised /\ r.kind = "Hashing")

\* The regular files of the tree.
RegularFiles == {p \in DOMAIN tree.kind : tree.kind[p] = "file"}

\* The basename of the directory is in excluded_folders or matches a pattern.
FolderIsExcluded(dir) ==
    LET name == IF dir = <<>> THEN tree.name ELSE dir[Len(dir)]
    IN name \in wopts.excluded_folders \/ name \in wopts.pattern_matches

\* The file lies under a directory that is excluded.
UnderExcludedFolder(p) ==
    \E k \in 0..(Len(p) - 1) : FolderIsExcluded(SubSeq(p, 1, k))

\* The basename of the file is in excluded_files or matches a pattern.
FileIsExcluded(p) ==
    LET name == IF p = <<>> THEN tree.name ELSE p[Len(p)]
    IN name \in wopts.excluded_files \/ name \in wopts.pattern_matches

\* The three classes of C15.
FilesSkipped == {p \in RegularFiles : UnderExcludedFolder(p)}

FilesExcluded == {p \in RegularFiles \ FilesSkipped : FileIsExcluded(p)}

FilesIncluded == RegularFiles \ (FilesSkipped \cup FilesExcluded)

\* C15: the walker partitions the regular files of the tree: files under an
\* excluded directory are counted nowhere and are not in the worklist, files
\* with an excluded basename are counted as excluded and are not in the
\* worklist, all others are counted as included and are in the worklist
\* once; included always equals the worklist length.
C15_WalkerPartition ==
    /\ wincluded = Len(files)
    /\ wpc = "done" =>
          /\ Range(files) = FilesIncluded
          /\ Len(files) = Cardinality(FilesIncluded)
          /\ wexcluded = Cardinality(FilesExcluded)

\* C15 witness: a finished walk of a tree with a file under an excluded
\* directory, a file excluded by a pattern and an included file.
C15_Witness ==
    /\ wpc = "done"
    /\ FilesSkipped # {}
    /\ \E p \in FilesExcluded : p[Len(p)] \in wopts.pattern_matches
    /\ FilesIncluded # {}
    /\ files # <<>>

\* The first component in which two paths differ.
FirstDifference(p, q) ==
    CHOOSE k \in 1..Len(p) : (k > Len(q) \/ p[k] # q[k]) /\ \A j \in 1..(k - 1) : p[j] = q[j]

\* C16: the worklist lists the entries of each directory in lexicographic
\* order, whatever order the filesystem returns them in: of two worklist
\* files, the one whose path is smaller in the first differing component
\* comes first.
C16_LexicographicWorklist ==
    \A i \in 1..Len(files) : \A j \in (i + 1)..Len(files) :
        LET k == FirstDifference(files[i], files[j])
        IN NameRank(files[i][k]) < NameRank(files[j][k])

\* The entry the cache should return for the arguments of a set.
EntryOf(args) ==
    PyDict([file_hash |-> IF args.file_hash.some THEN PyStr(args.file_hash.str) ELSE PyNone,
            file_info |-> args.file_info,
            size |-> PyInt(args.size),
            mtime |-> PyFloat(args.mtime)])

\* C18: after any sequence of set operations, get of a path returns None
\* when the path was never set and otherwise the entry with the hash, info,
\* size and mtime of the path's most recent set (so a set of another path
\* leaves it unchanged), and the table holds at most one row per path.
C18_CacheRoundTrip ==
    \A p \in CachePaths :
        /\ Cardinality({r \in rows : r.file_path = p}) <= 1
        /\ LET got == cache_get_entry(rows, p)
           IN IF lastSet[p].some
              THEN got.some /\ got.entry = EntryOf(lastSet[p])
              ELSE ~got.some

\* Two successive calls on the path, both with a stat of the file, the first
\* returning a value, with the (size, mtime) of the file unchanged.
SameStampCalls ==
    {i \in 1..(Len(mcalls) - 1) :
        /\ mcalls[i].stat /\ mcalls[i].ok
        /\ mcalls[i + 1].stat
        /\ mcalls[i + 1].stamp = mcalls[i].stamp}

\* The second of the calls i, i + 1 returns the value of the first without
\* reading the file.
SameValueNoRead(i) ==
    /\ mcalls[i + 1].ok
    /\ mcalls[i + 1].value = mcalls[i].value
    /\ ~mcalls[i + 1].read

\* C20 as stated: two calls on the same path with unchanged (size, mtime)
\* return the same value and the second does not read the file, whatever
\* calls on other paths happen in between.
C20_AnyCallsBetween ==
    \A i \in SameStampCalls : SameValueNoRead(i)

\* C20: two calls on the same path with unchanged (size, mtime) return the
\* same value and the second does not read the file, provided fewer than
\* 4096 distinct other keys were put or promoted in between, so that the
\* entry of the path was not evicted.
C20_IdempotentUnlessEvicted ==
    \A i \in SameStampCalls :
        mcalls[i + 1].others # "capacity" => SameValueNoRead(i)

\* C20 witness: the first call read the file, 4095 other keys were used and
\* the content changed under the same (size, mtime); the second call
\* returned the first value, which the content no longer has, without
\* reading.
C20_Witness ==
    /\ Len(mcalls) = 2
    /\ 1 \in SameStampCalls
    /\ mcalls[1].read
    /\ mcalls[2].others = "most"
    /\ SameValueNoRead(1)
    /\ mfile.ext = ""
    /\ classify_sample(mfile) # mcalls[2].value

\* The classes of the MIME types: text for a type that starts with text/ or
\* is one of the seven listed, no verdict for application/octet-stream,
\* binary for every other type.
ListedTextTypes ==
    {"application/json", "application/xml", "application/javascript",
     "application/x-javascript", "application/x-sh", "application/x-empty",
     "inode/x-empty"}

MimeTypeClass(mime_type) ==
    IF starts_with(mime_type, "text/") \/ mime_type \in ListedTextTypes THEN Some(FALSE)
    ELSE IF mime_type = "application/octet-stream" THEN None
    ELSE Some(TRUE)

\* C21: classify_mime_type gives text exactly for the types that start with
\* text/ or equal one of the seven listed types, defers for
\* application/octet-stream and gives binary for every other type.
C21_MimeTypeClasses ==
    pout.fn = "classify_mime_type" => pout.value = MimeTypeClass(pout.mime_type)

\* C22: every empty file that is classified is classified as text, whatever
\* its extension.
C22_EmptyFilesText ==
    (pout.fn = "classify_uncached" /\ pfile.sample = <<>> /\ pout.value.ok)
        => ~pout.value.result

\* C23: once the consumer has dropped the iterator, a send the aggregator
\* attempts is refused, sets the flag and ends the aggregator, and the
\* run comes to its end: no task of the pool is left, the aggregator has
\* returned (or was never spawned) and the traversal thread has terminated.
C23_DropTerminates ==
    /\ [](aresult = "Cancelled" => (flag /\ apc = "done"))
    /\ (cpc = "dropped") ~> (tpc = "exit" /\ tasks = {} /\ apc \in {"idle", "done"})

\* C23 witness: the iterator was dropped with both channels full; the
\* aggregator's send was refused, the worker's hand-off of one more record
\* failed, and the traversal thread has terminated.
C23_Witness ==
    /\ cpc = "dropped"
    /\ tpc = "exit"
    /\ Len(batchCh) = opts.chunk_size * BatchChannelFactor
    /\ Len(entryCh) = opts.threads * EntryChannelFactor
    /\ aresult = "Cancelled"
    /\ "Cancelled" \in errs
    /\ processed + Len(entryCh) < included

\* C24: the counters of every Summary are computed per record by the
\* aggregator: excluded_files is the number of received records with
\* `excluded` info, included_files the number of received records whose
\* info is neither `excluded` nor `error`, and processed_files the number of
\* all received records.
C24_PerRecordCounters ==
    \A s \in Range(summaries) :
        /\ s.excluded_files = seenExcluded
        /\ s.included_files = processed - Len(failed_files) - seenExcluded
        /\ s.processed_files = processed

\* The step of the per-file pipeline that decides the record of file f under
\* options o, in the order of precedence.
DecidingStep(f, o) ==
    CASE f.stat = "err" -> "stat"
      [] f.stat # "err" /\ f.size > o.max_file_size -> "size"
      [] f.stat # "err" /\ f.size <= o.max_file_size /\ f.classify = "err" -> "classify"
      [] f.stat # "err" /\ f.size <= o.max_file_size /\ f.classify # "err"
           /\ (f.classify = "binary" \/ f.image) /\ ~o.include_binary -> "binary_or_image"
      [] OTHER -> "reader"

\* The reader of a file that reached the readers succeeds.
ReaderSucceeds(f, o) ==
    f.read = "ok"

\* C25: process_path decides the record in a fixed precedence: a stat failure
\* gives error(OSError); else size > max_file_size gives excluded(file_size);
\* else a classifier failure gives an error; else (binary or image extension)
\* with include_binary = false gives excluded(binary_or_image); else the
\* record carries the content reader's result, or an embedded error info when
\* the reader failed.
C25_Precedence ==
    Processed =>
        LET info == pout.value.info
            step == DecidingStep(pfile, popts)
        IN /\ step = "stat" =>
                  info.type = "error" /\ info.exception_type = "OSError"
           /\ step = "size" =>
                  info.type = "excluded" /\ info.reason = "file_size"
           /\ step = "classify" =>
                  info.type = "error" /\ info.content = "Failed to classify file"
           /\ step = "binary_or_image" =>
                  info.type = "excluded" /\ info.reason = "binary_or_image"
           /\ step = "reader" =>
                  /\ "stat" \in DOMAIN pout.value
                  /\ IF ReaderSucceeds(pfile, popts)
                     THEN info.type = (IF pfile.classify = "binary" THEN "binary" ELSE "text")
                     ELSE info.type = "error" /\ info.exception_type = "NativeError"

\* C25 witness: an oversize binary file was reported with reason file_size
\* although include_binary is false.
C25_Witness ==
    /\ Processed
    /\ pfile.stat = "ok"
    /\ pfile.classify = "binary"
    /\ ~popts.include_binary
    /\ pfile.size > popts.max_file_size
    /\ pout.value.info.reason = "file_size"

\* A step in which the aggregator emits an Entries batch.
EmitsBatch ==
    /\ Len(batchCh') = Len(batchCh) + 1
    /\ batchCh'[Len(batchCh')].type = "Entries"

\* The aggregator is past its last Entries batch.
PastLastBatch(pc) == pc \in {"summary", "done"}

\* C26: every Entries batch the aggregator emits is non-empty and has at most
\* chunk_size records, and every batch except the last one of the run has
\* exactly chunk_size records: a batch of fewer records is emitted only as
\* the aggregator's last batch, after which it emits no further batch.
C26_BatchSizes ==
    [][/\ EmitsBatch =>
            LET batch == batchCh'[Len(batchCh')].entries
            IN /\ ~PastLastBatch(apc)
               /\ Len(batch) >= 1
               /\ Len(batch) <= opts.chunk_size
               /\ Len(batch) < opts.chunk_size => PastLastBatch(apc')
       /\ PastLastBatch(apc) => PastLastBatch(apc')]_vars

\* C26 witness: with chunk_size = 2 the consumer received three records in
\* two batches, a full one and the last partial one, and then the Summary.
C26_Witness ==
    /\ opts.chunk_size = 2
    /\ nbatches = 2
    /\ Len(log) = 3
    /\ summaries # <<>>

\* The worker of the file with index i has passed the pre-file check and is
\* completing or handing over its record.
Started(i) == \E t \in tasks : t.index = i /\ t.st = "send"

\* The consumer has received the record of the file with index i in a batch.
Delivered(i) == \E k \in 1..Len(log) : log[k].index = i

\* C27: work already started is not lost on token cancellation: when the
\* token is true while the worker of a file has passed its pre-file check,
\* then, with a consumer that keeps pulling, the file's record is delivered
\* in an Entries batch and a Summary with stopped_early = true is received,
\* the record before the Summary.
C27_StartedWorkDelivered ==
    /\ \A i \in 0..(LiveMaxEntries - 1) :
           (token = "true" /\ Started(i))
               ~> (Delivered(i) /\ \E s \in Range(summaries) : s.stopped_early)
    /\ [](\A i \in 0..(LiveMaxEntries - 1) :
              (Started(i) \/ \E k \in 1..Len(entryCh) : entryCh[k].index = i)
                  => summaries = <<>>)

\* The indices of the files whose workers have passed the load of the flag.
InFlight(ts) == {t.index : t \in ts}

\* C28: once the shared cancellation flag is true it never becomes false
\* again, and no worker starts a file whose pre-file check begins afterwards:
\* the files in flight are only those that had passed the check, at most one
\* per worker thread, so at most one further record per thread is produced.
C28_FlagStopsWorkers ==
    [][/\ flag => flag'
       /\ flag => InFlight(tasks') \subseteq InFlight(tasks)
       /\ Cardinality(InFlight(tasks')) <= opts.threads
       /\ (flag /\ Len(entryCh') > Len(entryCh)) =>
              /\ entryCh'[Len(entryCh')].index \in InFlight(tasks)
              /\ entryCh'[Len(entryCh')].index \notin InFlight(tasks')]_vars

\* C28 witness: a worker's poll of the token has set the flag while the
\* worker of another file, which had passed the check, is still handing over
\* its record, and files of the worklist were never started.
C28_Witness ==
    /\ flag
    /\ token = "true"
    /\ ~ReceiverGone
    /\ \E t \in tasks : t.st = "send"
    /\ todo # {}

\* The thread is in compute_stat_key or in classify_uncached: it stats or
\* reads a file.
TouchesFile(pc) == pc \in {"stat", "classify", "uncached"}

\* C29: whatever the number of threads in is_binary, no thread holds the
\* mutex of MIME_CACHE while it stats or reads a file: the mutex is held only
\* for the lookup and, separately, for the insert, and the call of a path
\* whose stat fails never takes the mutex, the cache changing only under it.
C29_NoLockAcrossIo ==
    [][/\ \A t \in DOMAIN lpc :
              /\ TouchesFile(lpc[t]) => lholder # t
              /\ lholder = t => lpc[t] \in {"get", "drop", "put"}
              /\ lpc[t] = "uncached" => (lholder' # t /\ lpc'[t] \in {"uncached", "idle"})
              /\ (lpc[t] = "drop" /\ lpc'[t] # "drop") => lholder' # t
       /\ lcache' # lcache =>
              /\ lholder # 0
              /\ lpc[lholder] = "put"
              /\ lcache' = lcache \cup {lpath[lholder]}]_vars

\* C29 witness: one thread reads its file after a miss while another thread
\* holds the mutex for its lookup.
C29_Witness ==
    \E t, u \in DOMAIN lpc :
        /\ lpc[t] = "classify"
        /\ lpc[u] = "get"
        /\ lholder = u

\* The labels among EncLabels that name an encoding.
RecognisedLabels ==
    {"utf-8", "UTF-8", " utf8 ", "latin1", "windows-1252", "utf-16le", "utf-16",
     "utf-16be"}

\* The sample starts with a byte order mark.
HasBom(sample) ==
    \/ Len(sample) >= 3 /\ <<sample[1], sample[2], sample[3]>> = <<239, 187, 191>>
    \/ Len(sample) >= 2 /\ <<sample[1], sample[2]>> \in {<<255, 254>>, <<254, 255>>}

\* C30: encoding detection follows a strict priority: a caller's label that
\* is recognised decides, also over a byte order mark; otherwise the byte
\* order mark of the sample decides; otherwise a sample that is valid UTF-8
\* gives utf-8; otherwise windows-1252. A label that is not recognised is
\* ignored and the remaining steps decide.
C30_DetectionPriority ==
    pout.fn = "detect_encoding" =>
        LET sample == pfile.sample
            provided == pfile.provided
            result == pout.value
            labelled == provided.some /\ provided.label \in RecognisedLabels
        IN /\ labelled => result.enc = for_label(provided.label)
           /\ (~labelled /\ HasBom(sample)) => result.enc = for_bom(sample)
           /\ (~labelled /\ ~HasBom(sample) /\ from_utf8_is_ok(sample)) =>
                  result.name = "utf-8"
           /\ (~labelled /\ ~HasBom(sample) /\ ~from_utf8_is_ok(sample)) =>
                  result.name = "windows-1252"
           /\ result.enc # "none"

\* C30 witness: the caller's label windows-1252 decided for a sample that
\* starts with the UTF-8 byte order mark.
C30_Witness ==
    /\ pout.fn = "detect_encoding"
    /\ pfile.provided = [some |-> TRUE, label |-> "windows-1252"]
    /\ pfile.sample = <<239, 187, 191>>
    /\ pout.value.name = "windows-1252"

\* The smallest of three numbers.
Min3(a, b, c) == Min(a, Min(b, c))

\* C31: read_binary_preview returns excluded/binary_too_large exactly when
\* the file size is above max_preview_bytes; otherwise it returns a binary
\* preview of the first min(file size, max_preview_bytes, 3 MiB) bytes with
\* preview_bytes the number of bytes read. For the binary and for the text
\* preview the key `truncated` is present, and true, exactly when the file
\* has more bytes than were read.
C31_Previews ==
    (pout.fn \in {"read_binary_preview", "read_text_preview"} /\ pout.value.ok) =>
        LET info == pout.value.value
            size == pfile.size
            limit == popts.max_bytes
        IN /\ pout.fn = "read_binary_preview" =>
                 /\ (info.type = "excluded") <=> (size > limit)
                 /\ info.type = "excluded" =>
                        info.reason = "binary_too_large" /\ info.size = size
                 /\ size <= limit =>
                        /\ info.type = "binary"
                        /\ info.preview_bytes = Min3(size, limit, 3 * SizeUnit)
           /\ pout.fn = "read_text_preview" =>
                 /\ info.type = "text"
                 /\ info.preview_bytes = Min3(size, limit, 5 * SizeUnit)
           /\ info.type \in {"binary", "text"} =>
                 /\ ("truncated" \in DOMAIN info) <=> (size > info.preview_bytes)
                 /\ "truncated" \in DOMAIN info => info.truncated

\* C31 witness: the binary preview of a file of 3 MiB + 1 bytes under a
\* larger max_preview_bytes holds 3 MiB and is marked truncated.
C31_Witness ==
    /\ pout.fn = "read_binary_preview"
    /\ pout.value.ok
    /\ pfile.size = 3 * SizeUnit + 1
    /\ popts.max_bytes > pfile.size
    /\ pout.value.value.preview_bytes = 3 * SizeUnit
    /\ pout.value.value.truncated

\* C32: a Summary with stopped_early = false tells that the run visited every
\* file: every file of the worklist was processed (processed_files =
\* included_files) and delivered to the consumer in a batch before that
\* Summary, also in the runs in which a worker's poll of the token fails.
C32_NotStoppedIsComplete ==
    \A s \in Range(summaries) :
        ~s.stopped_early =>
            /\ s.processed_files = s.included_files
            /\ Len(log) = s.included_files

\* The walker is about to poll a token that is cancelled: the entry it
\* looks at next is not an error, so the poll takes place and returns true.
WalkerSeesCancel ==
    /\ tpc = "gather"
    /\ unwalked > 0
    /\ ~nextErr
    /\ token = "true"

\* C33: once the walker observes a cancelled token at an entry, the walk
\* stops there and no file is processed afterwards, the files gathered before
\* included: the consumer receives no Entries batch, and every Summary has
\* stopped_early = true, processed_files = 0 and the included and excluded
\* counts the walk had reached.
C33_WalkerCancelStopsAll ==
    [](WalkerSeesCancel =>
          [](/\ tpc # "gather" => (processed = 0 /\ log = <<>> /\ nbatches = 0)
             /\ \A s \in Range(summaries) :
                   /\ s.stopped_early
                   /\ s.processed_files = 0
                   /\ s.included_files = included
                   /\ s.excluded_files = excluded))

\* C33 witness: the token was set during the walk, after a file had been
\* gathered; the walker stopped, and the pool starts on the worklist with the
\* flag already set and no file started.
C33_Witness ==
    /\ tokenAtStart = "false"
    /\ token = "true"
    /\ flag
    /\ tpc = "install"
    /\ included >= 1
    /\ todo = 0..(included - 1)
    /\ tasks = {}
    /\ ~full

\* C34: read_text_preview reports the encoding utf-8 for every file without
\* byte order mark whose whole content is valid UTF-8 when the caller gives
\* no label, whatever the length of the file, also when the file is longer
\* than the detection sample and the sample ends inside a multi-byte
\* character.
C34_WholeUtf8IsUtf8 ==
    (/\ pout.fn = "read_text_preview"
     /\ ~pfile.provided.some
     /\ ~HasBom(run_bytes(pfile))
     /\ from_utf8_is_ok(run_bytes(pfile))) =>
        pout.encoding = "utf-8"

====
